---- MODULE Spec2Model ----
(***************************************************************************)
(* State-machine model of cuby/realtime_client.py (class RealtimeClient):  *)
(* the control surface called from the UI thread, the supervisor thread    *)
(* with its asyncio event loop (_thread_main, _reconnect_loop,             *)
(* _run_session) and the two pipeline tasks (_audio_sender,                *)
(* _audio_receiver).                                                       *)
(*                                                                         *)
(* Granularity.  Code that runs on one event loop is cut at its awaits     *)
(* and at the blocking microphone read; the UI thread's stop() is cut      *)
(* where the supervisor thread can interleave (after the flag is set,      *)
(* before the join).  A thread, a connection and an audio stream are       *)
(* named by the id of the supervisor thread that created them.             *)
(***************************************************************************)
EXTENDS Integers, Sequences, FiniteSets, TLC

VARIABLES
    \* ---- fields of RealtimeClient ----
    _thread,                    \* None or the id of the thread start() made
    _loop,                      \* None or the id of the thread owning the loop
    _stop_flag,                 \* threading.Event: is_set()
    _mic_enabled,
    _speaker_enabled,
    _connected,
    _in_stream,                 \* None or the id of the capture stream
    _out_stream,                \* None or the id of the playback stream
    _current_ws,                \* None or the id of the connection
    _assistant_speaking,
    _last_assistant_audio_time, \* in ticks of 100 ms; 0 is the code's 0.0
    _assistant_text_buffer,
    _assistant_audio_buffer,
    \* ---- session configuration (fields of RealtimeClient) ----
    instructions,
    voice,
    vad_threshold,              \* in hundredths
    vad_silence_ms,
    \* ---- execution contexts ----
    call,                       \* UI thread: the control call in progress
    exc,                        \* UI thread: what a control call raised
    pc,                         \* per thread: position of the supervisor
    sender,                     \* per thread: position of _audio_sender
    receiver,                   \* per thread: position of _audio_receiver
    polls,                      \* per thread: sleeps done in the backoff loop
    outcome,                    \* per thread: how the running session ended
    ui,                         \* position of the UI thread inside stop()
    \* ---- resources ----
    wsState,                    \* per connection: none / open / closed_*
    inOpen,                     \* capture streams that are open
    outOpen,                    \* playback streams that are open
    sched,                      \* per loop: coroutines scheduled thread-safely
    wire,                       \* outbound events put on a connection by the last step
    \* ---- environment and observation ----
    now,                        \* time.monotonic() in ticks of 100 ms
    emitted,                    \* notifications emitted by the last step
    log,                        \* inbound events received (text specification)
    calls,                      \* start() calls since the last stop()
    lastFrame,                  \* what became of the last microphone frame
    lastChunk,                  \* when the last audio chunk arrived
    lastPlayed,                 \* when the last audio chunk was played
    args                        \* arguments of the last configuration call

clientVars == <<_thread, _loop, _stop_flag, _mic_enabled, _speaker_enabled,
                _connected, _in_stream, _out_stream, _current_ws>>
echoVars == <<_assistant_speaking, _last_assistant_audio_time>>
bufVars == <<_assistant_text_buffer, _assistant_audio_buffer>>
cfgVars == <<instructions, voice, vad_threshold, vad_silence_ms>>
callVars == <<call, exc>>
taskVars == <<pc, sender, receiver, polls, outcome>>
resVars == <<wsState, inOpen, outOpen, sched>>
obsVars == <<log, calls, lastFrame, lastChunk, lastPlayed, args>>
vars == <<clientVars, cfgVars, echoVars, bufVars, callVars, taskVars, ui,
          resVars, wire, now, emitted, obsVars>>

-----------------------------------------------------------------------------
(* Bounds of the model *)

MaxThreads == 2     \* supervisor threads that can exist at the same time
MaxSched == 1       \* coroutines waiting on one loop
MaxTime == 12       \* the clock stops advancing here (ticks of 100 ms)
MaxEvents == 4      \* inbound events of one run of the text specification

(* Program constants *)

None == 0               \* Python's None for the Optional fields
ClosedPolls == 30       \* for _ in range(30): ... sleep(0.1)
ErrorPolls == 50        \* for _ in range(50): ... sleep(0.1)
CooldownTicks == 8      \* _assistant_cooldown_sec = 0.8, in ticks of 100 ms
PauseTicks == 3         \* asyncio.sleep(0.3), in ticks of 100 ms

Threads == 1..MaxThreads

-----------------------------------------------------------------------------
(* Notifications: the callbacks window.py assigns (on_status,              *)
(* on_server_error, on_ws_state, on_event_text, ...), as <<kind, text>>.   *)

Note(kind, text) == <<kind, text>>

\* Outbound events, as far as the client fills them in
Message(type, text) == [type |-> type, text |-> text]

\* _send_session_update, lines 499-521: the payload is built from the
\* configuration of the moment
SessionUpdate ==
    [type |-> "session.update", instructions |-> instructions, voice |-> voice,
     threshold |-> vad_threshold, silence_duration_ms |-> vad_silence_ms]

\* The UI thread is in no control call
NoCall == [op |-> "none", text |-> ""]

Alive(t) == pc[t] # "dead"

\* The blocking sounddevice read runs inside the loop's thread: while the
\* sender is in it nothing else on that loop runs.
CanRun(t) == Alive(t) /\ sender[t] # "reading"

\* self._thread and self._thread.is_alive()
IsAlive == _thread # None /\ Alive(_thread)

\* A thread id can be used again when nothing of its last life is left.
Free(t) ==
    /\ pc[t] = "dead"
    /\ wsState[t] = "none"
    /\ t \notin (inOpen \cup outOpen)
    /\ t \notin {_in_stream, _out_stream, _current_ws, _loop}
    /\ sched[t] = <<>>

-----------------------------------------------------------------------------
(* The control surface (UI thread) *)

\* start() without the is_alive() test
start_unchecked ==
    /\ ui = "idle"
    /\ \E t \in Threads :
         /\ Free(t)
         /\ \A u \in Threads : u < t => ~Free(u)
         /\ _stop_flag' = FALSE
         /\ _thread' = t
         /\ pc' = [pc EXCEPT ![t] = "spawned"]
    /\ emitted' = <<>>
    /\ wire' = <<>>
    /\ UNCHANGED <<cfgVars, callVars,
                   _loop, _mic_enabled, _speaker_enabled, _connected,
                   _in_stream, _out_stream, _current_ws, echoVars, bufVars,
                   sender, receiver, polls, outcome, ui, resVars, now>>

\* RealtimeClient.start
start ==
    /\ ui = "idle"
    /\ IF IsAlive
       THEN UNCHANGED <<_thread, _stop_flag, pc>>
       ELSE \E t \in Threads :
              /\ Free(t)
              /\ \A u \in Threads : u < t => ~Free(u)
              /\ _stop_flag' = FALSE
              /\ _thread' = t
              /\ pc' = [pc EXCEPT ![t] = "spawned"]
    /\ emitted' = <<>>
    /\ wire' = <<>>
    /\ UNCHANGED <<cfgVars, callVars,
                   _loop, _mic_enabled, _speaker_enabled, _connected,
                   _in_stream, _out_stream, _current_ws, echoVars, bufVars,
                   sender, receiver, polls, outcome, ui, resVars, now>>

\* RealtimeClient.stop, line 126: the flag is set
StopSetFlag ==
    /\ ui = "idle"
    /\ \A t \in Threads : Len(sched[t]) < MaxSched
    /\ _stop_flag' = TRUE
    /\ ui' = "stop_release"
    /\ emitted' = <<>>
    /\ wire' = <<>>
    /\ UNCHANGED <<cfgVars, callVars,
                   _thread, _loop, _mic_enabled, _speaker_enabled, _connected,
                   _in_stream, _out_stream, _current_ws, echoVars, bufVars,
                   taskVars, resVars, now>>

\* RealtimeClient.stop, lines 129-162: the close of the connection is
\* scheduled on the loop, both audio streams are stopped, closed and cleared
StopRelease ==
    /\ ui = "stop_release"
    /\ sched' = IF _loop # None /\ _current_ws # None
                THEN [sched EXCEPT ![_loop] =
                        Append(@, [op |-> "close", ws |-> _current_ws,
                                   text |-> ""])]
                ELSE sched
    /\ inOpen' = inOpen \ {_in_stream}
    /\ outOpen' = outOpen \ {_out_stream}
    /\ _in_stream' = None
    /\ _out_stream' = None
    /\ ui' = "stop_join"
    /\ emitted' = <<>>
    /\ wire' = <<>>
    /\ UNCHANGED <<cfgVars, callVars,
                   _thread, _loop, _stop_flag, _mic_enabled, _speaker_enabled,
                   _connected, _current_ws, echoVars, bufVars, taskVars,
                   wsState, now>>

\* A join without a timeout
JoinNeverExpires(t) == FALSE

\* What a thread can be doing for longer than the 3 s of the join: it waits
\* for the network (the handshake of connecting or of closing, or the next
\* inbound event of an open connection nobody is about to close) and nothing
\* else is left to run on its loop.
JoinMayExpire(t) ==
    \/ pc[t] \in {"connecting", "ws_closing"}
    \/ /\ pc[t] = "running"
       /\ sender[t] = "done"
       /\ receiver[t] = "recv"
       /\ wsState[t] = "open"
       /\ sched[t] = <<>>

\* RealtimeClient.stop, lines 164-169: join(timeout=3.0) returns when the
\* thread has ended or when the timeout has expired; _thread is cleared
StopJoin ==
    /\ ui = "stop_join"
    /\ \/ ~IsAlive
       \/ IsAlive /\ JoinMayExpire(_thread)
    /\ _thread' = None
    /\ ui' = "idle"
    /\ emitted' = <<>>
    /\ wire' = <<>>
    /\ UNCHANGED <<cfgVars, callVars,
                   _loop, _stop_flag, _mic_enabled, _speaker_enabled,
                   _connected, _in_stream, _out_stream, _current_ws, echoVars,
                   bufVars, taskVars, resVars, now>>

\* RealtimeClient.toggle_mic
toggle_mic(enabled) ==
    /\ ui = "idle"
    /\ _mic_enabled' = enabled
    /\ emitted' = <<Note("status", IF enabled THEN "Microphone enabled."
                                              ELSE "Microphone muted.")>>
    /\ wire' = <<>>
    /\ UNCHANGED <<cfgVars, callVars,
                   _thread, _loop, _stop_flag, _speaker_enabled, _connected,
                   _in_stream, _out_stream, _current_ws, echoVars, bufVars,
                   taskVars, ui, resVars, now>>

\* RealtimeClient.toggle_speaker
toggle_speaker(enabled) ==
    /\ ui = "idle"
    /\ _speaker_enabled' = enabled
    /\ emitted' = <<Note("status", IF enabled THEN "Speaker enabled."
                                              ELSE "Speaker muted.")>>
    /\ wire' = <<>>
    /\ UNCHANGED <<cfgVars, callVars,
                   _thread, _loop, _stop_flag, _mic_enabled, _connected,
                   _in_stream, _out_stream, _current_ws, echoVars, bufVars,
                   taskVars, ui, resVars, now>>

\* self._loop and self._connected and self._current_ws is not None
SessionActive == _loop # None /\ _connected /\ _current_ws # None

\* set_instructions that stores the text and dispatches nothing
set_instructions_stored_only(text) ==
    /\ ui = "idle"
    /\ instructions' = IF text = "" THEN instructions ELSE text
    /\ emitted' = <<>>
    /\ wire' = <<>>
    /\ UNCHANGED <<clientVars, voice, vad_threshold, vad_silence_ms, echoVars,
                   bufVars, callVars, taskVars, ui, resVars, now>>

\* RealtimeClient.set_instructions, lines 171-187: an empty text changes
\* nothing; otherwise the text is stored and, with a session active, the
\* call goes on to dispatch a session.update
set_instructions(text) ==
    /\ ui = "idle"
    /\ \A t \in Threads : Len(sched[t]) < MaxSched
    /\ IF text = ""
       THEN UNCHANGED <<instructions, ui, call>>
       ELSE /\ instructions' = text
            /\ IF SessionActive
               THEN /\ ui' = "dispatch"
                    /\ call' = [op |-> "session_update", text |-> ""]
               ELSE UNCHANGED <<ui, call>>
    /\ emitted' = <<>>
    /\ wire' = <<>>
    /\ UNCHANGED <<clientVars, voice, vad_threshold, vad_silence_ms, echoVars,
                   bufVars, exc, taskVars, resVars, now>>

\* RealtimeClient.set_voice, lines 197-200
set_voice(v) ==
    /\ ui = "idle"
    /\ voice' = IF v # "" THEN v ELSE voice
    /\ emitted' = <<>>
    /\ wire' = <<>>
    /\ UNCHANGED <<clientVars, instructions, vad_threshold, vad_silence_ms,
                   echoVars, bufVars, callVars, taskVars, ui, resVars, now>>

Min(a, b) == IF a < b THEN a ELSE b
Max(a, b) == IF a > b THEN a ELSE b

\* A threshold bounded from below only
ClampThresholdBelow(x) == Max(0, x)

\* lines 208 and 210; the threshold in hundredths
ClampThreshold(x) == Max(0, Min(100, x))
ClampSilence(x) == Max(100, x)

\* RealtimeClient.set_vad_params, lines 202-219.  An argument is <<>> when
\* it is omitted (None) and <<x>> when x is supplied.
set_vad_params(threshold, silence_ms) ==
    /\ ui = "idle"
    /\ \A t \in Threads : Len(sched[t]) < MaxSched
    /\ vad_threshold' = IF threshold # <<>> THEN ClampThreshold(threshold[1])
                        ELSE vad_threshold
    /\ vad_silence_ms' = IF silence_ms # <<>> THEN ClampSilence(silence_ms[1])
                         ELSE vad_silence_ms
    /\ emitted' = <<Note("status", "VAD updated")>>
    /\ IF SessionActive
       THEN /\ ui' = "dispatch"
            /\ call' = [op |-> "session_update", text |-> ""]
       ELSE UNCHANGED <<ui, call>>
    /\ wire' = <<>>
    /\ UNCHANGED <<clientVars, instructions, voice, echoVars, bufVars, exc,
                   taskVars, resVars, now>>

\* RealtimeClient.submit_text, lines 281-284, called by a handler of the
\* window right after its set_instructions (window.py lines 1093-1096),
\* whose coroutine may still wait on the loop
submit_text_from_handler(text) ==
    /\ ui = "idle"
    /\ IF text = "" \/ _loop = None \/ ~_connected
       THEN UNCHANGED <<ui, call>>
       ELSE /\ ui' = "dispatch"
            /\ call' = [op |-> "user_text", text |-> text]
    /\ emitted' = <<>>
    /\ wire' = <<>>
    /\ UNCHANGED <<clientVars, cfgVars, echoVars, bufVars, exc, taskVars,
                   resVars, now>>

\* RealtimeClient.submit_text called with room on every loop
submit_text(text) ==
    /\ \A t \in Threads : Len(sched[t]) < MaxSched
    /\ submit_text_from_handler(text)

\* RealtimeClient.request_response, lines 312-319, called by a handler of
\* the window right after its set_instructions (window.py lines 1070-1074),
\* whose coroutine may still wait on the loop
request_response_from_handler ==
    /\ ui = "idle"
    /\ IF SessionActive
       THEN /\ ui' = "dispatch"
            /\ call' = [op |-> "response_create", text |-> ""]
       ELSE UNCHANGED <<ui, call>>
    /\ emitted' = <<>>
    /\ wire' = <<>>
    /\ UNCHANGED <<clientVars, cfgVars, echoVars, bufVars, exc, taskVars,
                   resVars, now>>

\* RealtimeClient.request_response called with room on every loop
request_response ==
    /\ \A t \in Threads : Len(sched[t]) < MaxSched
    /\ request_response_from_handler

\* The dispatch of set_instructions and set_vad_params is inside try/except
\* Exception: pass (lines 188-195, 220-226); that of submit_text and of
\* request_response is not (lines 288, 320)
Guarded(op) == op = "session_update"

\* A loop that runs the coroutine handed over last first
SchedulePrepends ==
    /\ ui = "dispatch"
    /\ IF call.op = "user_text" /\ _current_ws = None
       THEN UNCHANGED <<sched, exc>>
       ELSE IF _loop = None
            THEN /\ exc' = IF Guarded(call.op) THEN exc ELSE "raised"
                 /\ UNCHANGED sched
            ELSE /\ sched' = [sched EXCEPT ![_loop] =
                                <<[op |-> call.op, ws |-> _current_ws,
                                   text |-> call.text]>> \o @]
                 /\ UNCHANGED exc
    /\ ui' = "idle"
    /\ call' = NoCall
    /\ emitted' = <<>>
    /\ wire' = <<>>
    /\ UNCHANGED <<clientVars, cfgVars, echoVars, bufVars, taskVars, wsState,
                   inOpen, outOpen, now>>

\* The second half of a control call, which the supervisor thread may have
\* overtaken: the connection and the loop are read again (lines 189-191,
\* 221-223, 285-288, 320) and the coroutine is handed to the loop.
\* submit_text returns when the connection is gone (line 286);
\* run_coroutine_threadsafe raises when the loop is None or closed.
Schedule ==
    /\ ui = "dispatch"
    /\ IF call.op = "user_text" /\ _current_ws = None
       THEN UNCHANGED <<sched, exc>>
       ELSE IF _loop = None
            THEN /\ exc' = IF Guarded(call.op) THEN exc ELSE "raised"
                 /\ UNCHANGED sched
            ELSE /\ sched' = [sched EXCEPT ![_loop] =
                                Append(@, [op |-> call.op, ws |-> _current_ws,
                                           text |-> call.text])]
                 /\ UNCHANGED exc
    /\ ui' = "idle"
    /\ call' = NoCall
    /\ emitted' = <<>>
    /\ wire' = <<>>
    /\ UNCHANGED <<clientVars, cfgVars, echoVars, bufVars, taskVars, wsState,
                   inOpen, outOpen, now>>

-----------------------------------------------------------------------------
(* The supervisor thread: _thread_main, _reconnect_loop, _run_session *)

\* _thread_main, lines 328-331: the loop is created and published, the
\* reconnect loop starts
ThreadMain(t) ==
    /\ pc[t] = "spawned"
    /\ _loop' = t
    /\ pc' = [pc EXCEPT ![t] = "loop_top"]
    /\ emitted' = <<>>
    /\ wire' = <<>>
    /\ UNCHANGED <<cfgVars, callVars,
                   _thread, _stop_flag, _mic_enabled, _speaker_enabled,
                   _connected, _in_stream, _out_stream, _current_ws, echoVars,
                   bufVars, sender, receiver, polls, outcome, ui, resVars,
                   now>>

\* _reconnect_loop, line 341: while not self._stop_flag.is_set()
LoopTop(t) ==
    /\ pc[t] = "loop_top"
    /\ CanRun(t)
    /\ pc' = [pc EXCEPT ![t] = IF _stop_flag THEN "exiting" ELSE "session"]
    /\ emitted' = <<>>
    /\ wire' = <<>>
    /\ UNCHANGED <<cfgVars, callVars,
                   clientVars, echoVars, bufVars, sender, receiver, polls,
                   outcome, ui, resVars, now>>

\* A session that begins with the state the session before left
SessionBeginKeepsState(t) ==
    /\ pc[t] = "session"
    /\ CanRun(t)
    /\ IF _stop_flag
       THEN /\ pc' = [pc EXCEPT ![t] = "loop_top"]
            /\ emitted' = <<>>
            /\ UNCHANGED <<_current_ws, echoVars, bufVars>>
       ELSE /\ pc' = [pc EXCEPT ![t] = "open_audio"]
            /\ emitted' = <<Note("status", "Connecting to Realtime...")>>
            /\ _current_ws' = None
            /\ UNCHANGED <<echoVars, bufVars>>
    /\ wire' = <<>>
    /\ UNCHANGED <<cfgVars, callVars,
                   _thread, _loop, _stop_flag, _mic_enabled, _speaker_enabled,
                   _connected, _in_stream, _out_stream, sender, receiver,
                   polls, outcome, ui, resVars, now>>

\* _run_session, lines 368-378: return at once when stop is requested (the
\* else branch of the reconnect loop then skips its sleep); otherwise the
\* per-session fields are reset
SessionBegin(t) ==
    /\ pc[t] = "session"
    /\ CanRun(t)
    /\ IF _stop_flag
       THEN /\ pc' = [pc EXCEPT ![t] = "loop_top"]
            /\ emitted' = <<>>
            /\ UNCHANGED <<_current_ws, echoVars, bufVars>>
       ELSE /\ pc' = [pc EXCEPT ![t] = "open_audio"]
            /\ emitted' = <<Note("status", "Connecting to Realtime...")>>
            /\ _current_ws' = None
            /\ _assistant_speaking' = FALSE
            /\ _assistant_text_buffer' = ""
            /\ _assistant_audio_buffer' = ""
            /\ _last_assistant_audio_time' = 0
    /\ wire' = <<>>
    /\ UNCHANGED <<cfgVars, callVars,
                   _thread, _loop, _stop_flag, _mic_enabled, _speaker_enabled,
                   _connected, _in_stream, _out_stream, sender, receiver,
                   polls, outcome, ui, resVars, now>>

\* A reconnect loop that an exception of the session ends
AfterSessionPcFatal(oc) ==
    CASE oc = "closed_error" -> IF _stop_flag THEN "exiting" ELSE "backoff3"
      [] oc = "error"        -> "exiting"
      [] OTHER               -> IF _stop_flag THEN "loop_top" ELSE "pause"

\* _reconnect_loop, lines 344-364: what follows the end of one session.
\* oc is "closed_error" (ConnectionClosedError), "error" (any other
\* exception) or "ok" (_run_session returned).
AfterSessionPc(oc) ==
    CASE oc = "closed_error" -> IF _stop_flag THEN "exiting" ELSE "backoff3"
      [] oc = "error"        -> IF _stop_flag THEN "exiting" ELSE "backoff5"
      [] OTHER               -> IF _stop_flag THEN "loop_top" ELSE "pause"

AfterSessionNotes(oc) ==
    CASE oc = "closed_error" /\ ~_stop_flag ->
             <<Note("status", "WebSocket closed. Reconnecting in 3s...")>>
      [] oc = "error" /\ ~_stop_flag ->
             <<Note("error", "Unexpected error")>>
      [] OTHER -> <<>>

\* A scheduled coroutine holds the connection object it was given; once the
\* session that owned the connection is over it can no longer reach one.
Forget(q, w) ==
    [i \in DOMAIN q |-> IF q[i].ws = w THEN [q[i] EXCEPT !.ws = None] ELSE q[i]]

\* A finally block that leaves the playback stream as it is
SessionExitKeepsOutput(t, oc) ==
    /\ _current_ws' = None
    /\ _connected' = FALSE
    /\ inOpen' = inOpen \ {_in_stream}
    /\ _in_stream' = None
    /\ UNCHANGED <<_out_stream, outOpen>>
    /\ wsState' = [wsState EXCEPT ![t] = "none"]
    /\ sched' = [l \in Threads |-> Forget(sched[l], t)]
    /\ emitted' = <<Note("ws_state", "false"),
                    Note("status", "Audio streams closed.")>>
                  \o AfterSessionNotes(oc)
    /\ pc' = [pc EXCEPT ![t] = AfterSessionPc(oc)]
    /\ polls' = [polls EXCEPT ![t] = 0]
    /\ outcome' = [outcome EXCEPT ![t] = "ok"]

\* _run_session, lines 453-488 (the finally block), then the handler of the
\* reconnect loop: handle and connected flag cleared, connection-state(false),
\* both audio streams stopped, closed and cleared
SessionExit(t, oc) ==
    /\ _current_ws' = None
    /\ _connected' = FALSE
    /\ inOpen' = inOpen \ {_in_stream}
    /\ outOpen' = outOpen \ {_out_stream}
    /\ _in_stream' = None
    /\ _out_stream' = None
    /\ wsState' = [wsState EXCEPT ![t] = "none"]
    /\ sched' = [l \in Threads |-> Forget(sched[l], t)]
    /\ emitted' = <<Note("ws_state", "false"),
                    Note("status", "Audio streams closed.")>>
                  \o AfterSessionNotes(oc)
    /\ pc' = [pc EXCEPT ![t] = AfterSessionPc(oc)]
    /\ polls' = [polls EXCEPT ![t] = 0]
    /\ outcome' = [outcome EXCEPT ![t] = "ok"]

\* An attempt that goes on to connect after the streams failed to open
OpenAudioGoesOn(t, stage) ==
    /\ pc[t] = "open_audio"
    /\ CanRun(t)
    /\ IF stage = "ok"
       THEN /\ _in_stream' = t
            /\ _out_stream' = t
            /\ inOpen' = inOpen \cup {t}
            /\ outOpen' = outOpen \cup {t}
            /\ emitted' = <<>>
       ELSE /\ _in_stream' = None
            /\ _out_stream' = None
            /\ inOpen' = inOpen \ {IF stage = "in_ctor" THEN _in_stream ELSE t}
            /\ outOpen' = outOpen \ {IF stage = "start" THEN t ELSE _out_stream}
            /\ emitted' = <<Note("error", "Failed to open audio streams"),
                            Note("status", "Audio streams closed due to init error.")>>
    /\ pc' = [pc EXCEPT ![t] = "connecting"]
    /\ wire' = <<>>
    /\ UNCHANGED <<cfgVars, callVars,
                   _thread, _loop, _stop_flag, _mic_enabled, _speaker_enabled,
                   _connected, _current_ws, echoVars, bufVars, sender, receiver,
                   polls, outcome, ui, wsState, sched, now>>

\* _run_session, lines 381-429: both streams are opened and started, or the
\* attempt is given up: whatever was opened is released, both references are
\* cleared, the attempt returns.  stage is where the opening failed.
OpenAudio(t, stage) ==
    /\ pc[t] = "open_audio"
    /\ CanRun(t)
    /\ IF stage = "ok"
       THEN /\ _in_stream' = t
            /\ _out_stream' = t
            /\ inOpen' = inOpen \cup {t}
            /\ outOpen' = outOpen \cup {t}
            /\ pc' = [pc EXCEPT ![t] = "connecting"]
            /\ emitted' = <<>>
       ELSE /\ _in_stream' = None
            /\ _out_stream' = None
            /\ inOpen' = inOpen \ {IF stage = "in_ctor" THEN _in_stream ELSE t}
            /\ outOpen' = outOpen \ {IF stage = "start" THEN t ELSE _out_stream}
            /\ pc' = [pc EXCEPT ![t] = AfterSessionPc("ok")]
            /\ emitted' = <<Note("error", "Failed to open audio streams"),
                            Note("status", "Audio streams closed due to init error.")>>
    /\ wire' = <<>>
    /\ UNCHANGED <<cfgVars, callVars,
                   _thread, _loop, _stop_flag, _mic_enabled, _speaker_enabled,
                   _connected, _current_ws, echoVars, bufVars, sender, receiver,
                   polls, outcome, ui, wsState, sched, now>>

\* _run_session, lines 439-445: the connection is established, published and
\* announced; or ws_connect raises and the finally block runs
Connect(t, ok) ==
    /\ pc[t] = "connecting"
    /\ CanRun(t)
    /\ IF ok
       THEN /\ wsState' = [wsState EXCEPT ![t] = "open"]
            /\ _current_ws' = t
            /\ _connected' = TRUE
            /\ pc' = [pc EXCEPT ![t] = "configure"]
            /\ emitted' = <<Note("ws_state", "true"),
                            Note("status", "Connected. You can start speaking.")>>
            /\ UNCHANGED <<_in_stream, _out_stream, inOpen, outOpen, sched,
                           polls, outcome>>
       ELSE SessionExit(t, "error")
    /\ wire' = <<>>
    /\ UNCHANGED <<cfgVars, callVars,
                   _thread, _loop, _stop_flag, _mic_enabled, _speaker_enabled,
                   echoVars, bufVars, sender, receiver, ui, now>>

\* What ws.send / ws.recv raise on a connection that is not open
ClosedOutcome(t) ==
    IF wsState[t] = "closed_error" THEN "closed_error" ELSE "error"

\* A session that starts its pipelines whether or not session.update was sent
ConfigureStartsAnyway(t) ==
    /\ pc[t] = "configure"
    /\ CanRun(t)
    /\ sender[t] = "done" /\ receiver[t] = "done"
    /\ pc' = [pc EXCEPT ![t] = "running"]
    /\ sender' = [sender EXCEPT ![t] = "top"]
    /\ receiver' = [receiver EXCEPT ![t] = "top"]
    /\ IF wsState[t] = "open"
       THEN /\ emitted' = <<Note("status", "session.update sent")>>
            /\ wire' = <<SessionUpdate>>
       ELSE /\ emitted' = <<>>
            /\ wire' = <<>>
    /\ UNCHANGED outcome
    /\ UNCHANGED <<cfgVars, callVars,
                   clientVars, echoVars, bufVars, polls, ui, resVars, now>>

\* _run_session, lines 448-452: the initial session.update is sent; then the
\* two pipeline tasks are created and the session waits in gather
Configure(t) ==
    /\ pc[t] = "configure"
    /\ CanRun(t)
    /\ sender[t] = "done" /\ receiver[t] = "done"
    /\ IF wsState[t] = "open"
       THEN /\ pc' = [pc EXCEPT ![t] = "running"]
            /\ sender' = [sender EXCEPT ![t] = "top"]
            /\ receiver' = [receiver EXCEPT ![t] = "top"]
            /\ emitted' = <<Note("status", "session.update sent")>>
            /\ wire' = <<SessionUpdate>>
            /\ UNCHANGED outcome
       ELSE /\ pc' = [pc EXCEPT ![t] = "ws_closing"]
            /\ outcome' = [outcome EXCEPT ![t] = ClosedOutcome(t)]
            /\ emitted' = <<>>
            /\ wire' = <<>>
            /\ UNCHANGED <<sender, receiver>>
    /\ UNCHANGED <<cfgVars, callVars,
                   clientVars, echoVars, bufVars, polls, ui, resVars, now>>

\* _run_session, line 452: asyncio.gather returns when both tasks have
\* returned, and raises as soon as one of them has raised (the other task is
\* left running)
Gather(t) ==
    /\ pc[t] = "running"
    /\ CanRun(t)
    /\ \/ /\ receiver[t] = "raised"
          /\ outcome' = [outcome EXCEPT ![t] = "error"]
          /\ receiver' = [receiver EXCEPT ![t] = "done"]
       \/ /\ sender[t] = "done" /\ receiver[t] = "done"
          /\ outcome' = [outcome EXCEPT ![t] = "ok"]
          /\ UNCHANGED receiver
    /\ pc' = [pc EXCEPT ![t] = "ws_closing"]
    /\ emitted' = <<>>
    /\ wire' = <<>>
    /\ UNCHANGED <<cfgVars, callVars,
                   clientVars, echoVars, bufVars, sender, polls, ui, resVars,
                   now>>

\* _run_session, lines 439-452: leaving "async with" closes the connection
\* and waits for the closing handshake
WsClose(t) ==
    /\ pc[t] = "ws_closing"
    /\ CanRun(t)
    /\ wsState' = [wsState EXCEPT ![t] = IF @ = "open" THEN "closed_ok" ELSE @]
    /\ pc' = [pc EXCEPT ![t] = "teardown"]
    /\ emitted' = <<>>
    /\ wire' = <<>>
    /\ UNCHANGED <<cfgVars, callVars,
                   clientVars, echoVars, bufVars, sender, receiver, polls,
                   outcome, ui, inOpen, outOpen, sched, now>>

\* _run_session, lines 453-488: the finally block, after which the outcome
\* reaches the reconnect loop
Teardown(t) ==
    /\ pc[t] = "teardown"
    /\ CanRun(t)
    /\ SessionExit(t, outcome[t])
    /\ wire' = <<>>
    /\ UNCHANGED <<cfgVars, callVars,
                   _thread, _loop, _stop_flag, _mic_enabled, _speaker_enabled,
                   echoVars, bufVars, sender, receiver, ui, now>>

\* asyncio runs a task that is ready before it waits for a timer: a sleep of
\* the supervisor does not end while a pipeline task left behind by a failed
\* session still has a step to take.
Ready(t) == sender[t] \in {"top", "sending"} \/ receiver[t] \in {"top", "raised"}

PollLimit(t) == IF pc[t] = "backoff3" THEN ClosedPolls ELSE ErrorPolls

\* _reconnect_loop, lines 349-352 and 358-361: one round of the backoff loop
Backoff(t) ==
    /\ pc[t] \in {"backoff3", "backoff5"}
    /\ CanRun(t) /\ ~Ready(t)
    /\ IF _stop_flag \/ polls[t] + 1 = PollLimit(t)
       THEN /\ pc' = [pc EXCEPT ![t] = "loop_top"]
            /\ polls' = [polls EXCEPT ![t] = 0]
       ELSE /\ polls' = [polls EXCEPT ![t] = @ + 1]
            /\ UNCHANGED pc
    /\ emitted' = <<>>
    /\ wire' = <<>>
    /\ UNCHANGED <<cfgVars, callVars,
                   clientVars, echoVars, bufVars, sender, receiver, outcome,
                   ui, resVars, now>>

\* _reconnect_loop, line 364: await asyncio.sleep(0.3), one sleep of three
\* tenths of a second; a step is one tenth of it going by, and the loop
\* condition is next read when the sleep is over
Pause(t) ==
    /\ pc[t] = "pause"
    /\ CanRun(t) /\ ~Ready(t)
    /\ IF polls[t] + 1 = PauseTicks
       THEN /\ pc' = [pc EXCEPT ![t] = "loop_top"]
            /\ polls' = [polls EXCEPT ![t] = 0]
       ELSE /\ polls' = [polls EXCEPT ![t] = @ + 1]
            /\ UNCHANGED pc
    /\ emitted' = <<>>
    /\ wire' = <<>>
    /\ UNCHANGED <<cfgVars, callVars,
                   clientVars, echoVars, bufVars, sender, receiver, outcome,
                   ui, resVars, now>>

\* _thread_main, lines 332-337: the loop is closed (what was still scheduled
\* or running on it never runs again) and _loop is cleared
ThreadExit(t) ==
    /\ pc[t] = "exiting"
    /\ CanRun(t)
    /\ _loop' = None
    /\ pc' = [pc EXCEPT ![t] = "dead"]
    /\ sender' = [sender EXCEPT ![t] = "done"]
    /\ receiver' = [receiver EXCEPT ![t] = "done"]
    /\ sched' = [sched EXCEPT ![t] = <<>>]
    /\ emitted' = <<>>
    /\ wire' = <<>>
    /\ UNCHANGED <<cfgVars, callVars,
                   _thread, _stop_flag, _mic_enabled, _speaker_enabled,
                   _connected, _in_stream, _out_stream, _current_ws, echoVars,
                   bufVars, polls, outcome, ui, wsState, inOpen, outOpen, now>>

\* What one step of a scheduled coroutine does: the events it puts on its
\* connection, the notifications, what of it is left to run, whether it
\* closes the connection
Result(w, n, r, c) == [wire |-> w, notes |-> n, rest |-> r, closes |-> c]

\* except Exception: if self._stop_flag.is_set(): return; on_server_error(...)
Handled(text) == IF _stop_flag THEN <<>> ELSE <<Note("error", text)>>

\* stop(), line 131: self._current_ws.close()
CloseConnection(c, live) == Result(<<>>, <<>>, <<>>, live)

\* _send_session_update (lines 494-527) scheduled by set_instructions or
\* set_vad_params: what it raises stays in the future nobody reads
LiveSessionUpdate(c, live) ==
    IF live
    THEN Result(<<SessionUpdate>>, <<Note("status", "session.update sent")>>,
                <<>>, FALSE)
    ELSE Result(<<>>, <<>>, <<>>, FALSE)

\* _send_user_text with the two events in the other order
_send_user_text_response_first(c, live) ==
    CASE ~live -> Result(<<>>, Handled("send_user_text error"), <<>>, FALSE)
      [] c.op = "user_text" ->
            Result(<<Message("response.create", "")>>, <<>>,
                   <<[c EXCEPT !.op = "user_text_response"]>>, FALSE)
      [] OTHER -> Result(<<Message("conversation.item.create", c.text)>>, <<>>,
                         <<>>, FALSE)

\* _send_user_text, lines 247-279: the item, then (after the await) the
\* response.create; a send that raises ends the coroutine in its handler
_send_user_text(c, live) ==
    CASE ~live -> Result(<<>>, Handled("send_user_text error"), <<>>, FALSE)
      [] c.op = "user_text" ->
            Result(<<Message("conversation.item.create", c.text)>>, <<>>,
                   <<[c EXCEPT !.op = "user_text_response"]>>, FALSE)
      [] OTHER -> Result(<<Message("response.create", "")>>, <<>>, <<>>, FALSE)

\* _send_response_create that adds an empty user item first
_send_response_create_with_item(c, live) ==
    IF live
    THEN Result(<<Message("conversation.item.create", ""),
                  Message("response.create", "")>>, <<>>, <<>>, FALSE)
    ELSE Result(<<>>, Handled("request_response error"), <<>>, FALSE)

\* A response.create held back by the echo guard of the send pipeline
_send_response_create_echo_guarded(c, live) ==
    IF live
    THEN IF \/ _assistant_speaking
            \/ /\ _last_assistant_audio_time > 0
               /\ now - _last_assistant_audio_time < CooldownTicks
         THEN Result(<<>>, <<>>, <<>>, FALSE)
         ELSE Result(<<Message("response.create", "")>>, <<>>, <<>>, FALSE)
    ELSE Result(<<>>, Handled("request_response error"), <<>>, FALSE)

\* _send_response_create, lines 292-310
_send_response_create(c, live) ==
    IF live
    THEN Result(<<Message("response.create", "")>>, <<>>, <<>>, FALSE)
    ELSE Result(<<>>, Handled("request_response error"), <<>>, FALSE)

Coroutine(c, live) ==
    CASE c.op = "close" -> CloseConnection(c, live)
      [] c.op = "session_update" -> LiveSessionUpdate(c, live)
      [] c.op \in {"user_text", "user_text_response"} -> _send_user_text(c, live)
      [] OTHER -> _send_response_create(c, live)

\* A coroutine scheduled with run_coroutine_threadsafe runs on its loop, up
\* to its next await.  It holds the connection it was given; a connection
\* that is closed, or whose session is over, makes a send raise.  A
\* connection that belongs to another loop is used outside its thread: the
\* operation may or may not take effect (effective).
RunScheduled(t, effective) ==
    /\ pc[t] \notin {"dead", "spawned", "exiting"}
    /\ CanRun(t)
    /\ sched[t] # <<>>
    /\ LET c == Head(sched[t])
           live == effective /\ c.ws # None /\ wsState[c.ws] = "open"
           r == Coroutine(c, live)
       IN  /\ effective \/ c.ws \notin {None, t}
           /\ wsState' = IF r.closes THEN [wsState EXCEPT ![c.ws] = "closed_ok"]
                         ELSE wsState
           /\ sched' = [sched EXCEPT ![t] = r.rest \o Tail(@)]
           /\ emitted' = r.notes
           /\ wire' = r.wire
    /\ UNCHANGED <<clientVars, cfgVars, echoVars, bufVars, callVars, taskVars,
                   ui, inOpen, outOpen, now>>

-----------------------------------------------------------------------------
(* The send pipeline: _audio_sender *)

\* A sender whose loop does not test the stop flag
SenderTopWhileTrue(t) ==
    /\ sender[t] = "top"
    /\ Alive(t)
    /\ sender' = [sender EXCEPT ![t] =
                    IF _in_stream = None THEN "done" ELSE "reading"]
    /\ emitted' = <<>>
    /\ wire' = <<>>
    /\ UNCHANGED <<cfgVars, callVars,
                   clientVars, echoVars, bufVars, pc, receiver, polls, outcome,
                   ui, resVars, now>>

\* lines 533-538: the loop condition, the None check, the blocking read begins
SenderTop(t) ==
    /\ sender[t] = "top"
    /\ Alive(t)
    /\ sender' = [sender EXCEPT ![t] =
                    IF _stop_flag \/ _in_stream = None THEN "done" ELSE "reading"]
    /\ emitted' = <<>>
    /\ wire' = <<>>
    /\ UNCHANGED <<cfgVars, callVars,
                   clientVars, echoVars, bufVars, pc, receiver, polls, outcome,
                   ui, resVars, now>>

\* A cooldown that still holds when exactly 0.8 s have passed
InCooldownInclusive ==
    /\ _last_assistant_audio_time > 0
    /\ now - _last_assistant_audio_time <= CooldownTicks

\* lines 557-561: the cooldown after the last assistant audio frame
InCooldown ==
    /\ _last_assistant_audio_time > 0
    /\ now - _last_assistant_audio_time < CooldownTicks

\* A sender without the test of _assistant_speaking
SuppressedWhateverSpoken == ~_mic_enabled \/ InCooldown

\* A sender without the test of _mic_enabled
SuppressedWhateverMic == _assistant_speaking \/ InCooldown

\* lines 546-561: the frame is dropped
Suppressed == ~_mic_enabled \/ _assistant_speaking \/ InCooldown

\* lines 538-567: the read returns a frame or raises (the stream was closed
\* or cleared by stop() or by a teardown, or the device failed: deviceError);
\* a frame is dropped, or its input_audio_buffer.append begins to be sent
SenderRead(t, deviceError) ==
    /\ sender[t] = "reading"
    /\ Alive(t)
    /\ IF _in_stream = None \/ _in_stream \notin inOpen \/ deviceError
       THEN /\ sender' = [sender EXCEPT ![t] = "done"]
            /\ emitted' = IF _stop_flag THEN <<>>
                          ELSE <<Note("error", "Input stream error")>>
       ELSE /\ sender' = [sender EXCEPT ![t] =
                            IF Suppressed THEN "top" ELSE "sending"]
            /\ emitted' = <<>>
    /\ wire' = <<>>
    /\ UNCHANGED <<cfgVars, callVars,
                   clientVars, echoVars, bufVars, pc, receiver, polls, outcome,
                   ui, resVars, now>>

\* lines 566-575: the send is over (then sleep(0)), or it raised
SenderSend(t) ==
    /\ sender[t] = "sending"
    /\ Alive(t)
    /\ IF wsState[t] = "open"
       THEN /\ sender' = [sender EXCEPT ![t] = "top"]
            /\ emitted' = <<>>
            /\ wire' = <<Message("input_audio_buffer.append", "")>>
       ELSE /\ sender' = [sender EXCEPT ![t] = "done"]
            /\ emitted' = IF _stop_flag THEN <<>>
                          ELSE <<Note("error", "Sender error")>>
            /\ wire' = <<>>
    /\ UNCHANGED <<cfgVars, callVars,
                   clientVars, echoVars, bufVars, pc, receiver, polls, outcome,
                   ui, resVars, now>>

-----------------------------------------------------------------------------
(* The receive pipeline: _audio_receiver *)

\* An inbound frame: its "type", the payload field the branch for that type
\* reads ("delta", "text", "transcript" or the error's "code"; "" when the
\* field is missing or empty), and whether the playback write fails.
Event(type, text, writeFails) ==
    [type |-> type, text |-> text, writeFails |-> writeFails]

\* json.loads (line 597) raises on a malformed frame, base64.b64decode (line
\* 607) on a bad payload, which is decoded only when the speaker is enabled
Undecodable(ev) ==
    \/ ev.type = "malformed"
    \/ /\ ev.type = "response.audio.delta" /\ ev.text = "bad-base64"
       /\ _speaker_enabled

\* line 587: the loop condition; then ws.recv() is awaited
ReceiverTop(t) ==
    /\ receiver[t] = "top"
    /\ CanRun(t)
    /\ receiver' = [receiver EXCEPT ![t] = IF _stop_flag THEN "done" ELSE "recv"]
    /\ emitted' = <<>>
    /\ wire' = <<>>
    /\ UNCHANGED <<cfgVars, callVars,
                   clientVars, echoVars, bufVars, pc, sender, polls, outcome,
                   ui, resVars, now>>

\* lines 590-595: ws.recv() raises because the connection is closed
ReceiverClosed(t) ==
    /\ receiver[t] = "recv"
    /\ CanRun(t)
    /\ wsState[t] # "open"
    /\ receiver' = [receiver EXCEPT ![t] = "done"]
    /\ emitted' = IF _stop_flag THEN <<>>
                  ELSE <<Note("error", "Receiver error")>>
    /\ wire' = <<>>
    /\ UNCHANGED <<cfgVars, callVars,
                   clientVars, echoVars, bufVars, pc, sender, polls, outcome,
                   ui, resVars, now>>

\* line 614: the playback write raises when the stream was closed under it
\* or the device fails
WriteRaises(ev) ==
    _out_stream # None /\ (_out_stream \notin outOpen \/ ev.writeFails)

\* A receiver that plays the audio whether or not the speaker is enabled
OnAudioDeltaAlways(t, ev) ==
    IF ev.text = ""
    THEN /\ receiver' = [receiver EXCEPT ![t] = "top"]
         /\ emitted' = <<>>
         /\ UNCHANGED <<echoVars, bufVars>>
    ELSE /\ _assistant_speaking' = TRUE
         /\ _last_assistant_audio_time' = now
         /\ IF WriteRaises(ev) /\ _stop_flag
            THEN /\ receiver' = [receiver EXCEPT ![t] = "done"]
                 /\ emitted' = <<>>
            ELSE /\ receiver' = [receiver EXCEPT ![t] = "top"]
                 /\ emitted' = <<Note("audio_level", "level")>>
         /\ UNCHANGED bufVars

\* A chunk that is played and starts the cooldown without raising the flag
OnAudioDeltaFlagUntouched(t, ev) ==
    IF ~_speaker_enabled \/ ev.text = ""
    THEN /\ receiver' = [receiver EXCEPT ![t] = "top"]
         /\ emitted' = <<>>
         /\ UNCHANGED <<echoVars, bufVars>>
    ELSE /\ _last_assistant_audio_time' = now
         /\ IF WriteRaises(ev) /\ _stop_flag
            THEN /\ receiver' = [receiver EXCEPT ![t] = "done"]
                 /\ emitted' = <<>>
            ELSE /\ receiver' = [receiver EXCEPT ![t] = "top"]
                 /\ emitted' = <<Note("audio_level", "level")>>
         /\ UNCHANGED <<_assistant_speaking, bufVars>>

\* lines 601-627: response.audio.delta
OnAudioDelta(t, ev) ==
    IF ~_speaker_enabled \/ ev.text = ""
    THEN /\ receiver' = [receiver EXCEPT ![t] = "top"]
         /\ emitted' = <<>>
         /\ UNCHANGED <<echoVars, bufVars>>
    ELSE /\ _assistant_speaking' = TRUE
         /\ _last_assistant_audio_time' = now
         /\ IF WriteRaises(ev) /\ _stop_flag
            THEN /\ receiver' = [receiver EXCEPT ![t] = "done"]
                 /\ emitted' = <<>>
            ELSE /\ receiver' = [receiver EXCEPT ![t] = "top"]
                 /\ emitted' = <<Note("audio_level", "level")>>
         /\ UNCHANGED bufVars

\* response.audio_transcript.done without the test of the text buffer
OnAudioTranscriptDoneAlways(t, ev) ==
    LET transcript == IF ev.text # "" THEN ev.text ELSE _assistant_audio_buffer
    IN  /\ emitted' = IF transcript # ""
                      THEN <<Note("text", transcript)>> ELSE <<>>
        /\ _assistant_audio_buffer' = ""
        /\ _assistant_text_buffer' = ""
        /\ receiver' = [receiver EXCEPT ![t] = "top"]
        /\ UNCHANGED echoVars

\* lines 638-644: response.audio_transcript.done
OnAudioTranscriptDone(t, ev) ==
    LET transcript == IF ev.text # "" THEN ev.text ELSE _assistant_audio_buffer
    IN  /\ emitted' = IF _assistant_text_buffer = "" /\ transcript # ""
                      THEN <<Note("text", transcript)>> ELSE <<>>
        /\ _assistant_audio_buffer' = ""
        /\ _assistant_text_buffer' = ""
        /\ receiver' = [receiver EXCEPT ![t] = "top"]
        /\ UNCHANGED echoVars

\* response.text.done preferring what was accumulated to the event's text
OnTextDoneBufferFirst(t, ev) ==
    LET text == IF _assistant_text_buffer # "" THEN _assistant_text_buffer
                ELSE ev.text
    IN  /\ emitted' = IF text # "" THEN <<Note("text", text)>> ELSE <<>>
        /\ _assistant_text_buffer' = ""
        /\ _assistant_audio_buffer' = ""
        /\ receiver' = [receiver EXCEPT ![t] = "top"]
        /\ UNCHANGED echoVars

\* lines 652-657: response.text.done
OnTextDone(t, ev) ==
    LET text == IF ev.text # "" THEN ev.text ELSE _assistant_text_buffer
    IN  /\ emitted' = IF text # "" THEN <<Note("text", text)>> ELSE <<>>
        /\ _assistant_text_buffer' = ""
        /\ _assistant_audio_buffer' = ""
        /\ receiver' = [receiver EXCEPT ![t] = "top"]
        /\ UNCHANGED echoVars

\* An error event forwarded whatever its code
OnErrorForwardAll(t, ev) ==
    /\ emitted' = <<Note("error", "server error")>>
    /\ receiver' = [receiver EXCEPT ![t] = "top"]
    /\ UNCHANGED <<echoVars, bufVars>>

\* lines 666-673: error
OnError(t, ev) ==
    /\ emitted' = IF ev.text = "conversation_already_has_active_response"
                  THEN <<>> ELSE <<Note("error", "server error")>>
    /\ receiver' = [receiver EXCEPT ![t] = "top"]
    /\ UNCHANGED <<echoVars, bufVars>>

\* lines 597-673: one inbound frame is decoded and dispatched on its type
Dispatch(t, ev) ==
    CASE Undecodable(ev) ->
            /\ receiver' = [receiver EXCEPT ![t] = "raised"]
            /\ emitted' = <<>>
            /\ UNCHANGED <<echoVars, bufVars>>
      [] ev.type = "response.audio.delta" -> OnAudioDelta(t, ev)
      [] ev.type = "response.audio.done" ->
            /\ _assistant_speaking' = FALSE
            /\ receiver' = [receiver EXCEPT ![t] = "top"]
            /\ emitted' = <<>>
            /\ UNCHANGED <<_last_assistant_audio_time, bufVars>>
      [] ev.type = "response.audio_transcript.delta" ->
            /\ _assistant_audio_buffer' = _assistant_audio_buffer \o ev.text
            /\ receiver' = [receiver EXCEPT ![t] = "top"]
            /\ emitted' = <<>>
            /\ UNCHANGED <<echoVars, _assistant_text_buffer>>
      [] ev.type = "response.audio_transcript.done" -> OnAudioTranscriptDone(t, ev)
      [] ev.type = "response.text.delta" ->
            /\ _assistant_text_buffer' = _assistant_text_buffer \o ev.text
            /\ receiver' = [receiver EXCEPT ![t] = "top"]
            /\ emitted' = <<>>
            /\ UNCHANGED <<echoVars, _assistant_audio_buffer>>
      [] ev.type = "response.text.done" -> OnTextDone(t, ev)
      [] ev.type = "conversation.item.input_audio_transcription.completed" ->
            /\ emitted' = IF ev.text # "" THEN <<Note("user_transcript", ev.text)>>
                          ELSE <<>>
            /\ receiver' = [receiver EXCEPT ![t] = "top"]
            /\ UNCHANGED <<echoVars, bufVars>>
      [] ev.type = "error" -> OnError(t, ev)
      [] OTHER ->
            /\ receiver' = [receiver EXCEPT ![t] = "top"]
            /\ emitted' = <<>>
            /\ UNCHANGED <<echoVars, bufVars>>

\* lines 589-673: ws.recv() returns the frame the peer sent; it is processed
\* up to the next loop condition
ReceiverEvent(t, ev) ==
    /\ receiver[t] = "recv"
    /\ CanRun(t)
    /\ wsState[t] = "open"
    /\ Dispatch(t, ev)
    /\ wire' = <<>>
    /\ UNCHANGED <<cfgVars, callVars,
                   clientVars, pc, sender, polls, outcome, ui, resVars, now>>

-----------------------------------------------------------------------------
(* The environment *)

\* The peer or the network ends the connection: a close without a close
\* frame makes recv/send raise ConnectionClosedError, a normal close
\* ConnectionClosedOK
PeerClose(t, how) ==
    /\ wsState[t] = "open"
    /\ wsState' = [wsState EXCEPT ![t] = how]
    /\ emitted' = <<>>
    /\ wire' = <<>>
    /\ UNCHANGED <<cfgVars, callVars,
                   clientVars, echoVars, bufVars, taskVars, ui, inOpen,
                   outOpen, sched, now>>

\* time.monotonic() advances
Tick ==
    /\ now < MaxTime
    /\ now' = now + 1
    /\ emitted' = <<>>
    /\ wire' = <<>>
    /\ UNCHANGED <<cfgVars, callVars,
                   clientVars, echoVars, bufVars, taskVars, ui, resVars>>

-----------------------------------------------------------------------------
(* Steps of one supervisor thread, by what they wait for *)

\* The supervisor coroutine.  stages: how opening the audio streams can end.
SupervisorStep(t, stages) ==
    \/ ThreadMain(t) /\ UNCHANGED obsVars
    \/ LoopTop(t) /\ UNCHANGED obsVars
    \/ SessionBegin(t) /\ UNCHANGED obsVars
    \/ \E stage \in stages : OpenAudio(t, stage) /\ UNCHANGED obsVars
    \/ Configure(t) /\ UNCHANGED obsVars
    \/ Gather(t) /\ UNCHANGED obsVars
    \/ Teardown(t) /\ UNCHANGED obsVars
    \/ Backoff(t) /\ UNCHANGED obsVars
    \/ Pause(t) /\ UNCHANGED obsVars
    \/ ThreadExit(t) /\ UNCHANGED obsVars

ScheduledStep(t) ==
    \E effective \in BOOLEAN : RunScheduled(t, effective) /\ UNCHANGED obsVars

\* The send task.  errors: whether the microphone read can fail.
SenderStep(t, errors) ==
    \/ SenderTop(t) /\ UNCHANGED obsVars
    \/ \E deviceError \in errors : SenderRead(t, deviceError) /\ UNCHANGED obsVars
    \/ SenderSend(t) /\ UNCHANGED obsVars

\* The receive task, but for the arrival of a frame
ReceiverStep(t) ==
    \/ ReceiverTop(t) /\ UNCHANGED obsVars
    \/ ReceiverClosed(t) /\ UNCHANGED obsVars

\* Steps a thread takes by itself, in bounded time
OwnStep(t, stages, errors) ==
    \/ SupervisorStep(t, stages)
    \/ ScheduledStep(t)
    \/ SenderStep(t, errors)
    \/ ReceiverStep(t)

\* Steps that end a wait for the network, which the library bounds by its
\* timeouts.  results: how connecting can end.
NetStep(t, results) ==
    \/ \E ok \in results : Connect(t, ok) /\ UNCHANGED obsVars
    \/ WsClose(t) /\ UNCHANGED obsVars

-----------------------------------------------------------------------------
(* Initial states *)

\* RealtimeClient.__init__ called with the two VAD arguments (lines 72-74
\* store them as they come), and the callbacks window.py assigns
Constructed(threshold, silence_ms) ==
    /\ _thread = None
    /\ _loop = None
    /\ _stop_flag = FALSE
    /\ _mic_enabled = TRUE
    /\ _speaker_enabled = TRUE
    /\ _connected = FALSE
    /\ _in_stream = None
    /\ _out_stream = None
    /\ _current_ws = None
    /\ _assistant_speaking = FALSE
    /\ _last_assistant_audio_time = 0
    /\ _assistant_text_buffer = ""
    /\ _assistant_audio_buffer = ""
    /\ pc = [t \in Threads |-> "dead"]
    /\ sender = [t \in Threads |-> "done"]
    /\ receiver = [t \in Threads |-> "done"]
    /\ polls = [t \in Threads |-> 0]
    /\ outcome = [t \in Threads |-> "ok"]
    /\ ui = "idle"
    /\ wsState = [t \in Threads |-> "none"]
    /\ inOpen = {}
    /\ outOpen = {}
    /\ sched = [t \in Threads |-> <<>>]
    /\ now = 1
    /\ emitted = <<>>
    /\ instructions = "Base"
    /\ voice = "alloy"
    /\ vad_threshold = threshold
    /\ vad_silence_ms = silence_ms
    /\ call = NoCall
    /\ exc = "none"
    /\ wire = <<>>
    /\ log = <<>>
    /\ calls = [starts |-> 0, launched |-> 0]
    /\ lastFrame = "none"
    /\ lastChunk = 0
    /\ lastPlayed = 0
    /\ args = <<>>

\* The client as window.py constructs it (window.py lines 337-346, the
\* defaults of constants.py lines 29-30)
Init == Constructed(95, 1600)

\* The state in which the two pipelines of a session start: start() was
\* called, thread 1 opened the streams, connected and sent session.update
InitSession ==
    /\ _thread = 1
    /\ _loop = 1
    /\ _stop_flag = FALSE
    /\ _mic_enabled = TRUE
    /\ _speaker_enabled = TRUE
    /\ _connected = TRUE
    /\ _in_stream = 1
    /\ _out_stream = 1
    /\ _current_ws = 1
    /\ _assistant_speaking = FALSE
    /\ _last_assistant_audio_time = 0
    /\ _assistant_text_buffer = ""
    /\ _assistant_audio_buffer = ""
    /\ pc = [t \in Threads |-> IF t = 1 THEN "running" ELSE "dead"]
    /\ sender = [t \in Threads |-> IF t = 1 THEN "top" ELSE "done"]
    /\ receiver = [t \in Threads |-> IF t = 1 THEN "top" ELSE "done"]
    /\ polls = [t \in Threads |-> 0]
    /\ outcome = [t \in Threads |-> "ok"]
    /\ ui = "idle"
    /\ wsState = [t \in Threads |-> IF t = 1 THEN "open" ELSE "none"]
    /\ inOpen = {1}
    /\ outOpen = {1}
    /\ sched = [t \in Threads |-> <<>>]
    /\ now = 1
    /\ emitted = <<Note("status", "session.update sent")>>
    /\ instructions = "Base"
    /\ voice = "alloy"
    /\ vad_threshold = 95
    /\ vad_silence_ms = 1600
    /\ call = NoCall
    /\ exc = "none"
    /\ wire = <<SessionUpdate>>
    /\ log = <<>>
    /\ calls = [starts |-> 1, launched |-> 1]
    /\ lastFrame = "none"
    /\ lastChunk = 0
    /\ lastPlayed = 0
    /\ args = <<>>

-----------------------------------------------------------------------------
(* Spec: the life cycle.  Any calls of start() and stop() from the UI      *)
(* thread, every way a session can end.  start() is not called while a     *)
(* thread that an expired join left behind is still alive: SpecRestart     *)
(* covers that.                                                            *)

AllStages == {"ok", "in_ctor", "out_ctor", "start"}

\* Inbound frames of the life cycle: one that changes nothing and one that
\* cannot be decoded
LifeEvents ==
    {Event("response.audio.done", "", FALSE), Event("malformed", "", FALSE)}

Count(n) == IF n < 2 THEN n + 1 ELSE 2

\* start(), counted
StartCall ==
    /\ start
    /\ calls' = [starts |-> Count(calls.starts),
                 launched |-> IF pc' # pc THEN Count(calls.launched)
                              ELSE calls.launched]
    /\ UNCHANGED <<log, lastFrame, lastChunk, lastPlayed, args>>

\* stop() is entered
StopCall ==
    /\ StopSetFlag
    /\ calls' = [starts |-> 0, launched |-> 0]
    /\ UNCHANGED <<log, lastFrame, lastChunk, lastPlayed, args>>

StopStep ==
    \/ StopRelease /\ UNCHANGED obsVars
    \/ StopJoin /\ UNCHANGED obsVars

ThreadStep(t) == OwnStep(t, AllStages, BOOLEAN) \/ NetStep(t, BOOLEAN)

PeerStep(t) ==
    \/ \E ev \in LifeEvents : ReceiverEvent(t, ev) /\ UNCHANGED obsVars
    \/ \E how \in {"closed_error", "closed_ok"} :
          PeerClose(t, how) /\ UNCHANGED obsVars

NoThreadLeftBehind == \A t \in Threads : Alive(t) => t = _thread

Next ==
    \/ StartCall /\ NoThreadLeftBehind
    \/ StopCall
    \/ StopStep
    \/ \E enabled \in BOOLEAN : toggle_mic(enabled) /\ UNCHANGED obsVars
    \/ \E t \in Threads : ThreadStep(t)
    \/ \E t \in Threads : PeerStep(t)

Spec == Init /\ [][Next]_vars

\* Every coroutine of a loop that can run is run, a wait the library bounds
\* ends, and a stop() that was entered runs to its end; nothing is assumed
\* of the peer.
SpecFair ==
    /\ Spec
    /\ \A t \in Threads :
          /\ WF_vars(SupervisorStep(t, AllStages))
          /\ WF_vars(ScheduledStep(t))
          /\ WF_vars(SenderStep(t, BOOLEAN))
          /\ WF_vars(ReceiverStep(t))
          /\ WF_vars(NetStep(t, BOOLEAN))
    /\ WF_vars(StopStep)

\* The scheduling without the network: a wait for the network may never end
SpecStop ==
    /\ Spec
    /\ \A t \in Threads :
          /\ WF_vars(SupervisorStep(t, AllStages))
          /\ WF_vars(ScheduledStep(t))
          /\ WF_vars(SenderStep(t, BOOLEAN))
          /\ WF_vars(ReceiverStep(t))
    /\ WF_vars(StopStep)

-----------------------------------------------------------------------------
(* SpecRestart: start() and stop() in any order, start() also while a      *)
(* thread that an expired join left behind is still alive.  The devices    *)
(* and the network do not fail and the peer is silent.                     *)

RestartStep(t) == OwnStep(t, {"ok"}, {FALSE}) \/ NetStep(t, {TRUE})

RestartNext ==
    \/ StartCall
    \/ StopCall
    \/ StopStep
    \/ \E t \in Threads : RestartStep(t)

SpecRestart == Init /\ [][RestartNext]_vars

\* The same scheduling for SpecRestart
SpecRestartFair ==
    /\ SpecRestart
    /\ \A t \in Threads :
          /\ WF_vars(SupervisorStep(t, {"ok"}))
          /\ WF_vars(ScheduledStep(t))
          /\ WF_vars(SenderStep(t, {FALSE}))
          /\ WF_vars(ReceiverStep(t))
          /\ WF_vars(NetStep(t, {TRUE}))
    /\ WF_vars(StopStep)

-----------------------------------------------------------------------------
(* SpecEcho: the two pipelines of one running session, with audio from the *)
(* peer, the mic and speaker toggles and the clock.                        *)

\* A playable chunk, a chunk without payload, the end of the audio
EchoEvents ==
    {Event("response.audio.delta", "AAAA", FALSE),
     Event("response.audio.delta", "", FALSE),
     Event("response.audio.done", "", FALSE)}

\* The microphone read, with what became of the frame: sent, or dropped by
\* the first of the three tests that applied (lines 546, 552, 557)
EchoRead(t) ==
    /\ SenderRead(t, FALSE)
    /\ lastFrame' = CASE sender'[t] = "sending" -> "sent"
                      [] sender'[t] = "done" -> "failed"
                      [] ~_mic_enabled -> "dropped_mic"
                      [] _assistant_speaking -> "dropped_speaking"
                      [] OTHER -> "dropped_cooldown"
    /\ UNCHANGED <<log, calls, lastChunk, lastPlayed, args>>

\* The arrival of an inbound event, with the time of the audio chunks: of
\* every chunk, and of the chunks that are played (the speaker is enabled and
\* the chunk has a payload)
EchoReceive(t, ev) ==
    /\ ReceiverEvent(t, ev)
    /\ lastChunk' = IF ev.type = "response.audio.delta" THEN now ELSE lastChunk
    /\ lastPlayed' = IF /\ ev.type = "response.audio.delta"
                        /\ _speaker_enabled
                        /\ ev.text # ""
                     THEN now ELSE lastPlayed
    /\ UNCHANGED <<log, calls, lastFrame, args>>

EchoNext ==
    \/ \E t \in Threads : SenderTop(t) /\ UNCHANGED obsVars
    \/ \E t \in Threads : EchoRead(t)
    \/ \E t \in Threads : SenderSend(t) /\ UNCHANGED obsVars
    \/ \E t \in Threads : ReceiverTop(t) /\ UNCHANGED obsVars
    \/ \E t \in Threads : \E ev \in EchoEvents : EchoReceive(t, ev)
    \/ \E enabled \in BOOLEAN : toggle_mic(enabled) /\ UNCHANGED obsVars
    \/ \E enabled \in BOOLEAN : toggle_speaker(enabled) /\ UNCHANGED obsVars
    \/ Tick /\ UNCHANGED obsVars

SpecEcho == InitSession /\ [][EchoNext]_vars

-----------------------------------------------------------------------------
(* SpecText: the receive pipeline of one running session, with the text    *)
(* and transcript events of the peer in any order.                         *)

Fragments == {"Hel", "lo"}

TextEvents ==
    {Event("response.text.delta", f, FALSE) : f \in Fragments \cup {""}}
    \cup {Event("response.text.done", f, FALSE) : f \in {"", "Done"}}
    \cup {Event("response.audio_transcript.delta", f, FALSE) : f \in Fragments}
    \cup {Event("response.audio_transcript.done", f, FALSE) : f \in {"", "Said"}}

\* The arrival of an inbound event, recorded
TextReceive(t, ev) ==
    /\ Len(log) < MaxEvents
    /\ ReceiverEvent(t, ev)
    /\ log' = Append(log, ev)
    /\ UNCHANGED <<calls, lastFrame, lastChunk, lastPlayed, args>>

TextNext ==
    \/ \E t \in Threads : ReceiverTop(t) /\ UNCHANGED obsVars
    \/ \E t \in Threads : \E ev \in TextEvents : TextReceive(t, ev)

SpecText == InitSession /\ [][TextNext]_vars

-----------------------------------------------------------------------------
(* SpecNotify: the receive pipeline of one running session, with the       *)
(* error events and the transcripts of the user's speech in any order.     *)

NotifyEvents ==
    {Event("error", code, FALSE) :
        code \in {"conversation_already_has_active_response",
                  "rate_limit_exceeded", ""}}
    \cup {Event("conversation.item.input_audio_transcription.completed", f,
                FALSE) : f \in {"", "salam"}}

NotifyNext ==
    \/ \E t \in Threads : ReceiverTop(t) /\ UNCHANGED obsVars
    \/ \E t \in Threads : \E ev \in NotifyEvents : TextReceive(t, ev)

SpecNotify == InitSession /\ [][NotifyNext]_vars

-----------------------------------------------------------------------------
(* SpecConfig: the configuration calls with no session active.             *)

Texts == {"", "Base", "Rag", "Short"}
Voices == {"", "alloy", "verse", "echo"}
ThresholdInputs == {-50, 0, 25, 50, 95, 100, 250}
SilenceInputs == {0, 50, 100, 250, 1600, 2000}
Optional(S) == {<<>>} \cup {<<x>> : x \in S}

\* set_vad_params, with its arguments recorded
VadCall(threshold, silence_ms) ==
    /\ set_vad_params(threshold, silence_ms)
    /\ args' = <<threshold, silence_ms>>
    /\ UNCHANGED <<log, calls, lastFrame, lastChunk, lastPlayed>>

ConfigNext ==
    \/ \E text \in Texts : set_instructions(text) /\ UNCHANGED obsVars
    \/ \E v \in Voices : set_voice(v) /\ UNCHANGED obsVars
    \/ \E threshold \in Optional(ThresholdInputs) :
         \E silence_ms \in Optional(SilenceInputs) :
            VadCall(threshold, silence_ms)

SpecConfig == Init /\ [][ConfigNext]_vars

-----------------------------------------------------------------------------
(* SpecControl: the control calls of the UI thread against the life cycle  *)
(* of the session: start() and stop(), a peer that may close the           *)
(* connection, devices that do not fail.                                   *)

\* A control call recorded with its argument; the last component tells a
\* call from the same call made just before
Recorded(name, text) ==
    /\ args' = <<name, text, IF args = <<name, text, 0>> THEN 1 ELSE 0>>
    /\ UNCHANGED <<log, calls, lastFrame, lastChunk, lastPlayed>>

InstructionsCall(text) ==
    set_instructions(text) /\ Recorded("set_instructions", text)

SubmitCall(text) == submit_text(text) /\ Recorded("submit_text", text)

RequestCall == request_response /\ Recorded("request_response", "")

ControlCall ==
    \/ \E text \in {"", "Rag"} : InstructionsCall(text)
    \/ set_voice("verse") /\ UNCHANGED obsVars
    \/ \E threshold \in Optional({250}) :
         set_vad_params(threshold, <<50>>) /\ UNCHANGED obsVars
    \/ \E text \in {"", "Hi"} : SubmitCall(text)
    \/ RequestCall
    \/ Schedule /\ UNCHANGED obsVars

ControlStep(t) == OwnStep(t, {"ok"}, {FALSE}) \/ NetStep(t, {TRUE})

ControlNext ==
    \/ StartCall /\ NoThreadLeftBehind
    \/ StopCall
    \/ StopStep
    \/ ControlCall
    \/ \E t \in Threads : ControlStep(t)
    \/ \E t \in Threads : \E how \in {"closed_error", "closed_ok"} :
          PeerClose(t, how) /\ UNCHANGED obsVars

SpecControl == Init /\ [][ControlNext]_vars

(* stop() called again: each stop() is recorded as the first one since a
   start(), as a repeat of a stop() with no start() in between, or as a call
   on a client that was never started. *)

StopKind ==
    IF calls.starts > 0 THEN "first"
    ELSE IF args = <<>> THEN "unstarted" ELSE "repeat"

StopEntered ==
    /\ StopSetFlag
    /\ args' = <<"stop", StopKind>>
    /\ calls' = [starts |-> 0, launched |-> 0]
    /\ UNCHANGED <<log, lastFrame, lastChunk, lastPlayed>>

AgainRestartNext ==
    \/ StartCall
    \/ StopEntered
    \/ StopStep
    \/ \E t \in Threads : RestartStep(t)

SpecAgainRestart == Init /\ [][AgainRestartNext]_vars

-----------------------------------------------------------------------------
(* SpecPipes: the life cycle with the errors of the two pipelines: a        *)
(* microphone that may fail, a peer that may close the connection or send   *)
(* a frame that cannot be decoded, a playback device that may fail.         *)

PipeEvents ==
    {Event("response.audio.delta", "AAAA", FALSE),
     Event("response.audio.delta", "AAAA", TRUE),
     Event("response.audio.delta", "bad-base64", FALSE),
     Event("malformed", "", FALSE)}

\* The arrival of an inbound event: the last one is kept, with whether the
\* speaker was enabled when it arrived
PipeReceive(t, ev) ==
    /\ ReceiverEvent(t, ev)
    /\ log' = <<ev>>
    /\ lastFrame' = IF _speaker_enabled THEN "speaker_on" ELSE "speaker_off"
    /\ UNCHANGED <<calls, lastChunk, lastPlayed, args>>

PipeStep(t) == OwnStep(t, {"ok"}, BOOLEAN) \/ NetStep(t, {TRUE})

PipesNext ==
    \/ StartCall /\ NoThreadLeftBehind
    \/ StopCall
    \/ StopStep
    \/ \E enabled \in BOOLEAN : toggle_speaker(enabled) /\ UNCHANGED obsVars
    \/ \E t \in Threads : PipeStep(t)
    \/ \E t \in Threads : \E ev \in PipeEvents : PipeReceive(t, ev)
    \/ \E t \in Threads : PeerClose(t, "closed_error") /\ UNCHANGED obsVars

SpecPipes == Init /\ [][PipesNext]_vars

-----------------------------------------------------------------------------
(* Properties *)

AliveThreads == {t \in Threads : Alive(t)}
OpenConnections == {t \in Threads : wsState[t] = "open"}

\* C1: at most one session is active at any time: never two supervisor
\* threads, two connections or two pairs of audio streams alive at once, also
\* when start() follows a stop() whose join expired.
C1_OneSession ==
    /\ Cardinality(AliveThreads) <= 1
    /\ Cardinality(OpenConnections) <= 1
    /\ Cardinality(inOpen) <= 1
    /\ Cardinality(outOpen) <= 1

\* C2: a second start() with no stop() in between finds the thread of the
\* first one alive and changes nothing: exactly one thread was launched, it
\* is the only one alive, and the stop request, the fields and the thread's
\* progress are as they were.
C2_SecondStartNoOp ==
    [][(calls.starts = 1 /\ calls'.starts = 2) =>
          /\ calls'.launched = 1
          /\ IsAlive
          /\ AliveThreads' = {_thread'}
          /\ ~_stop_flag'
          /\ UNCHANGED <<clientVars, echoVars, bufVars, taskVars, ui, resVars>>
      ]_vars

C2_Witness == calls.starts = 2 /\ calls.launched = 1 /\ IsAlive

\* C3: stop() always returns: whatever the supervisor thread is doing, and
\* even if a wait for the network never ends, a stop() that was entered
\* comes back to the caller.
C3_StopReturns == (ui # "idle") ~> (ui = "idle")

C3_Witness ==
    ui = "stop_join" /\ IsAlive /\ pc[_thread] = "connecting"

\* C4: once stop is requested and no later start() clears the request, every
\* supervisor thread eventually ends.
C4_StopEndsThread ==
    _stop_flag ~> (~_stop_flag \/ AliveThreads = {})

\* C5: a supervisor thread leaves its reconnect loop only when it observes
\* the stop request; no outcome of a session ends the loop or the thread.
C5_ExitOnlyOnStop ==
    [][\A t \in Threads :
          (pc[t] \notin {"exiting", "dead"} /\ pc'[t] \in {"exiting", "dead"})
              => _stop_flag]_vars

C5_Witness ==
    \E t \in Threads : pc[t] = "backoff5" /\ ~_stop_flag /\ polls[t] > 0

SessionFailed(t) ==
    /\ pc[t] = "running"
    /\ \/ wsState[t] # "open"
       \/ sender[t] = "done"
       \/ receiver[t] \in {"done", "raised"}

\* C6: after a session fails (the peer closes, the network fails, the
\* microphone read fails) while no stop is requested, the supervisor
\* eventually begins a new attempt to connect.
C6_Recovers ==
    \A t \in Threads :
        (SessionFailed(t) /\ ~_stop_flag) ~> (_stop_flag \/ pc[t] = "open_audio")

SendBegins(t) == sender[t] = "reading" /\ sender'[t] = "sending"

\* C7: no microphone frame begins to be sent while the assistant is
\* speaking: the test and the send are one step of the sender.
C7_NoSendWhileSpeaking ==
    [][\A t \in Threads :
          SendBegins(t) => ~_assistant_speaking /\ ~_assistant_speaking']_vars

C7_Witness ==
    lastFrame = "dropped_speaking" /\ _mic_enabled /\ ~InCooldown

FrameRead(t) == sender[t] = "reading" /\ sender'[t] \in {"top", "sending"}

\* C8, as stated: a frame read is sent exactly when the mic is enabled, the
\* assistant is not speaking and no audio chunk arrived in the last 0.8 s.
C8_AsStated ==
    [][\A t \in Threads :
          FrameRead(t) =>
              (sender'[t] = "sending" <=>
                  /\ _mic_enabled
                  /\ ~_assistant_speaking
                  /\ (lastChunk = 0 \/ now - lastChunk >= CooldownTicks))]_vars

\* C8, amended: a frame read is sent exactly when the mic is enabled, the
\* assistant is not speaking and no audio chunk was played (one that arrived
\* with the speaker enabled and a payload) in the last 0.8 s.
C8_CooldownAfterPlayed ==
    [][\A t \in Threads :
          FrameRead(t) =>
              (sender'[t] = "sending" <=>
                  /\ _mic_enabled
                  /\ ~_assistant_speaking
                  /\ (lastPlayed = 0 \/ now - lastPlayed >= CooldownTicks))]_vars

C8_Witness ==
    /\ lastFrame = "dropped_cooldown"
    /\ lastPlayed > 0 /\ now - lastPlayed = CooldownTicks - 1

\* C9: with the mic disabled no frame begins to be sent, from the next frame
\* read on; and a step that changes the mic flag changes nothing else of the
\* client.
C9_MicOff ==
    [][/\ \A t \in Threads : SendBegins(t) => _mic_enabled
       /\ _mic_enabled' # _mic_enabled =>
              UNCHANGED <<_thread, _loop, _stop_flag, _speaker_enabled,
                          _connected, _in_stream, _out_stream, _current_ws,
                          echoVars, bufVars, taskVars, ui, resVars>>]_vars

C9_Witness ==
    lastFrame = "dropped_mic" /\ ~_mic_enabled /\ ~_assistant_speaking
    /\ ~InCooldown

DoneTypes == {"response.text.done", "response.audio_transcript.done"}

\* The text.delta fragments among l[1..i] that no later "done" event of
\* l[1..i] follows, concatenated
RECURSIVE Accumulated(_, _)
Accumulated(l, i) ==
    IF i = 0 \/ l[i].type \in DoneTypes THEN ""
    ELSE Accumulated(l, i - 1)
         \o (IF l[i].type = "response.text.delta" THEN l[i].text ELSE "")

\* C10: text.delta events with a non-empty accumulation followed by
\* text.done give exactly one assistant-text notification, with the text of
\* the done event if it has one and the accumulation otherwise, and leave
\* both buffers empty.
C10_TextDone ==
    [][(/\ Len(log') = Len(log) + 1
        /\ log'[Len(log')].type = "response.text.done"
        /\ Accumulated(log, Len(log)) # "") =>
          /\ emitted' = <<Note("text",
                            IF log'[Len(log')].text # ""
                            THEN log'[Len(log')].text
                            ELSE Accumulated(log, Len(log)))>>
          /\ _assistant_text_buffer' = ""
          /\ _assistant_audio_buffer' = ""]_vars

C10_Witness ==
    /\ Len(log) = 3
    /\ log[3] = Event("response.text.done", "", FALSE)
    /\ emitted = <<Note("text", "Hello")>>
    /\ _assistant_text_buffer = ""

\* C11: an error event with the code conversation_already_has_active_response
\* gives no notification and changes nothing, however many of them arrive;
\* an error event with another code or none gives exactly one server-error
\* notification; either way the receiver goes on to its next recv and the
\* session goes on.
C11_ErrorEvents ==
    [][(Len(log') = Len(log) + 1 /\ log'[Len(log')].type = "error") =>
          /\ emitted' =
                IF log'[Len(log')].text = "conversation_already_has_active_response"
                THEN <<>> ELSE <<Note("error", "server error")>>
          /\ \A t \in Threads : receiver[t] = "recv" => receiver'[t] = "top"
          /\ UNCHANGED <<clientVars, cfgVars, echoVars, bufVars, callVars, pc,
                         sender, outcome, resVars>>]_vars

C11_Witness ==
    /\ Len(log) = 3
    /\ \A i \in 1..3 :
          log[i] = Event("error", "conversation_already_has_active_response",
                         FALSE)
    /\ emitted = <<>>
    /\ receiver[1] = "top" /\ pc[1] = "running"

\* C12: set_vad_params stores the supplied threshold clamped into [0, 1]
\* (here in hundredths: 250 gives 100) and the supplied silence window raised
\* to at least 100 ms (50 gives 100); an omitted argument leaves its field
\* as it was.
C12_VadClamp ==
    [][emitted' = <<Note("status", "VAD updated")>> =>
          /\ vad_threshold' =
                IF args'[1] = <<>> THEN vad_threshold
                ELSE IF args'[1][1] < 0 THEN 0
                ELSE IF args'[1][1] > 100 THEN 100
                ELSE args'[1][1]
          /\ vad_silence_ms' =
                IF args'[2] = <<>> THEN vad_silence_ms
                ELSE IF args'[2][1] < 100 THEN 100
                ELSE args'[2][1]]_vars

C12_Witness ==
    args = <<<<250>>, <<50>>>> /\ vad_threshold = 100 /\ vad_silence_ms = 100

\* C13: with a session active, set_voice and set_vad_params store the new
\* value and go on to dispatch a session.update on the live connection.
C13_LiveUpdate ==
    [][((voice' # voice \/ emitted' = <<Note("status", "VAD updated")>>)
            /\ SessionActive) =>
          (ui' = "dispatch" /\ call'.op = "session_update")]_vars

\* The step is the first half of the control call of that name
CallStep(name) == args' # args /\ Len(args') = 3 /\ args'[1] = name

InstructionsStep == CallStep("set_instructions")

\* The session.update events a step puts on a connection carry the
\* configuration of that moment
CurrentConfigSent ==
    \A i \in 1..Len(wire') :
        wire'[i].type = "session.update" =>
            wire'[i] = [type |-> "session.update",
                        instructions |-> instructions', voice |-> voice',
                        threshold |-> vad_threshold',
                        silence_duration_ms |-> vad_silence_ms']

\* The dispatch of a session.update hands the coroutine, with the
\* connection of the moment, to the loop and raises nothing to the caller
UpdateDispatched ==
    (ui = "dispatch" /\ ui' = "idle" /\ call.op = "session_update") =>
        /\ exc' = exc
        /\ _loop # None =>
              sched' = [sched EXCEPT ![_loop] =
                          Append(@, [op |-> "session_update",
                                     ws |-> _current_ws, text |-> ""])]

Ran(t) ==
    /\ sched[t] # <<>>
    /\ sched'[t] # sched[t]
    /\ pc'[t] = pc[t]
    /\ \/ sched'[t] = Tail(sched[t])
       \/ sched'[t] = <<[Head(sched[t]) EXCEPT !.op = "user_text_response"]>>
                      \o Tail(sched[t])

\* The connection a scheduled coroutine holds can carry an event
Live(c) == c.ws # None /\ wsState[c.ws] = "open"

ItemSent == \E i \in 1..Len(wire') : wire'[i].type = "conversation.item.create"

\* C15: submit_text with a non-empty text while connected puts on the
\* connection the conversation.item.create with that text and then, in a
\* later step, the response.create; the response.create is not sent when the
\* item could not be sent; with an empty text or when not connected the call
\* sends nothing and changes nothing.
C15_SubmitText ==
    [][/\ CallStep("submit_text") =>
            IF args'[2] = "" \/ _loop = None \/ ~_connected
            THEN /\ wire' = <<>>
                 /\ UNCHANGED <<clientVars, cfgVars, callVars, taskVars, ui,
                                resVars>>
            ELSE /\ wire' = <<>>
                 /\ ui' = "dispatch"
                 /\ call' = [op |-> "user_text", text |-> args'[2]]
       /\ \A t \in Threads :
            (Ran(t) /\ Head(sched[t]).op = "user_text") =>
                IF Live(Head(sched[t]))
                THEN /\ wire' = <<Message("conversation.item.create",
                                          Head(sched[t]).text)>>
                     /\ Head(sched'[t]).op = "user_text_response"
                ELSE /\ wire' = <<>>
                     /\ sched'[t] = Tail(sched[t])
       /\ \A t \in Threads :
            (Ran(t) /\ Head(sched[t]).op = "user_text_response") =>
                /\ wire' = IF Live(Head(sched[t]))
                           THEN <<Message("response.create", "")>> ELSE <<>>
                /\ sched'[t] = Tail(sched[t])
       /\ ItemSent =>
            \E t \in Threads : Ran(t) /\ Head(sched[t]).op = "user_text"]_vars

C15_Witness ==
    /\ Len(args) = 3 /\ args[1] = "submit_text" /\ args[2] = "Hi"
    /\ wire = <<Message("response.create", "")>>

\* C16: request_response while connected puts exactly one response.create on
\* the connection and no conversation.item.create; when not connected it
\* sends nothing, notifies nothing and changes nothing.
C16_RequestResponse ==
    [][/\ CallStep("request_response") =>
            /\ wire' = <<>>
            /\ emitted' = <<>>
            /\ IF SessionActive
               THEN /\ ui' = "dispatch"
                    /\ call' = [op |-> "response_create", text |-> ""]
               ELSE UNCHANGED <<clientVars, cfgVars, callVars, taskVars, ui,
                                resVars>>
       /\ \A t \in Threads :
            (Ran(t) /\ Head(sched[t]).op = "response_create") =>
                /\ wire' = IF Live(Head(sched[t]))
                           THEN <<Message("response.create", "")>> ELSE <<>>
                /\ sched'[t] = Tail(sched[t])]_vars

C16_Witness ==
    /\ Len(args) = 3 /\ args[1] = "request_response"
    /\ wire = <<Message("response.create", "")>>

\* C17: no control call raises to its caller, whatever the supervisor thread
\* does between the call's liveness check and its scheduling step.
C17_NeverRaises == exc = "none"

\* C18: a live operation whose connection has ended, or was cleared, by the
\* time its scheduled send runs puts no event on any connection and emits no
\* notification.
C18_StaleSilent ==
    [][\A t \in Threads :
          (Ran(t) /\ Head(sched[t]).ws = None /\ Head(sched[t]).op # "close")
              => wire' = <<>> /\ emitted' = <<>>]_vars

\* The step belongs to a stop() that is not the first one since a start()
StopRepeated == ui = "stop_join" /\ Len(args) = 2 /\ args[2] # "first"

\* C19: stop() on a client that was never started, or called again after a
\* completed stop(), raises nothing and ends with the stop flag set, no
\* thread reference and no audio stream reference; with no thread alive it
\* changes nothing else and notifies nothing.
C19_StopAgain ==
    [][/\ (StopRepeated /\ ui' = "idle") =>
            /\ _stop_flag' /\ _thread' = None
            /\ _in_stream' = None /\ _out_stream' = None
            /\ exc' = "none"
       /\ (ui' # ui /\ Len(args') = 2 /\ args'[2] # "first"
              /\ AliveThreads = {})
            => /\ emitted' = <<>>
               /\ UNCHANGED <<_loop, _connected, _current_ws, _mic_enabled,
                              _speaker_enabled, cfgVars, echoVars, bufVars,
                              callVars, taskVars, resVars>>]_vars

\* C20: when the connection of a running session was closed by the peer and
\* stop is not requested, the session ends with the outcome the supervisor
\* answers with the "WebSocket closed" status line and the wait of 30 polls.
C20_PeerCloseBackoff ==
    [][\A t \in Threads :
          (/\ pc[t] = "running" /\ pc'[t] = "ws_closing"
           /\ sender[t] = "done" /\ receiver[t] = "done"
           /\ wsState[t] \in {"closed_error", "closed_ok"}
           /\ ~_stop_flag)
          => /\ AfterSessionPc(outcome'[t]) = "backoff3"
             /\ AfterSessionNotes(outcome'[t]) =
                  <<Note("status", "WebSocket closed. Reconnecting in 3s...")>>
      ]_vars

\* The step ends the session attempt of thread t
AttemptEnds(t) ==
    /\ pc[t] \in {"open_audio", "connecting", "teardown"}
    /\ pc'[t] \notin {"open_audio", "connecting", "configure", "teardown"}

\* C21: while stop is not requested, a session attempt that ends through a
\* failure (the connection cannot be established, an exception reaches the
\* supervisor) is followed by an error notification and the wait of 50
\* polls, and the short pause is entered only after a session whose
\* connection was not lost: never after a failure to open the audio streams
\* or after the connection broke under the pipelines.
C21_FailureBackoff ==
    [][\A t \in Threads :
          (AttemptEnds(t) /\ ~_stop_flag) =>
              /\ (pc[t] = "connecting" \/ outcome[t] = "error") =>
                    /\ pc'[t] = "backoff5"
                    /\ \E i \in 1..Len(emitted') : emitted'[i][1] = "error"
              /\ pc'[t] = "pause" =>
                    /\ pc[t] = "teardown"
                    /\ wsState[t] # "closed_error"
      ]_vars

Waits == {"backoff3", "backoff5", "pause"}

\* C22: in every wait of the supervisor the stop flag is read at least every
\* 100 ms: once stop is requested, the wait is over when the tenth of a
\* second that is going by has gone by, and the supervisor then ends without
\* another session.
C22_WaitsPollStop ==
    [][\A t \in Threads :
          /\ (/\ pc[t] \in Waits /\ _stop_flag
              /\ <<pc'[t], polls'[t]>> # <<pc[t], polls[t]>>)
             => pc'[t] = "loop_top"
          /\ (pc[t] = "loop_top" /\ _stop_flag /\ pc'[t] # pc[t])
             => pc'[t] = "exiting"
      ]_vars

\* The step is the return of _run_session at line 369
EarlyReturn(t) == pc[t] = "session" /\ pc'[t] = "loop_top"

\* C23: when a session attempt returns or raises, on whatever path, both
\* audio streams it opened are closed and both references are cleared, its
\* connection is closed, the connection handle is cleared and connected is
\* false.
C23_AttemptReleases ==
    [][\A t \in Threads :
          (AttemptEnds(t) \/ EarlyReturn(t)) =>
              /\ t \notin inOpen' /\ t \notin outOpen'
              /\ _in_stream' = None /\ _out_stream' = None
              /\ wsState'[t] = "none"
              /\ _current_ws' = None
              /\ ~_connected'
      ]_vars

C23_Witness ==
    /\ pc[1] = "backoff3"
    /\ emitted = <<Note("ws_state", "false"),
                   Note("status", "Audio streams closed."),
                   Note("status", "WebSocket closed. Reconnecting in 3s...")>>
    /\ inOpen = {} /\ outOpen = {}
    /\ wsState[1] = "none" /\ ~_connected

\* C24: when the teardown of a session closes the connection, the audio
\* streams of the session have been released already.
C24_AudioBeforeConnection ==
    [][\A t \in Threads :
          (pc[t] = "ws_closing" /\ pc'[t] = "teardown" /\ wsState[t] = "open")
          =>
              t \notin inOpen /\ t \notin outOpen]_vars

ErrorNotes(notes) == {i \in 1..Len(notes) : notes[i][1] = "error"}

\* The step is a failure of thread t to open its audio streams
AudioOpenFails(t) ==
    /\ pc[t] = "open_audio" /\ pc'[t] # "open_audio"
    /\ _in_stream' = None

\* C25: when the audio streams cannot be opened or started, whatever was
\* opened is released and both references are cleared, one error is notified,
\* nothing is sent, no connection exists, neither pipeline is started,
\* connected stays false and the attempt is back with the supervisor, which
\* retries after its pause unless stop is requested.
C25_AudioOpenFailure ==
    [][\A t \in Threads :
          AudioOpenFails(t) =>
              /\ t \notin inOpen' /\ t \notin outOpen'
              /\ _out_stream' = None
              /\ Cardinality(ErrorNotes(emitted')) = 1
              /\ wire' = <<>>
              /\ wsState'[t] = "none" /\ _current_ws' = None
              /\ ~_connected'
              /\ sender'[t] = "done" /\ receiver'[t] = "done"
              /\ pc'[t] = IF _stop_flag THEN "loop_top" ELSE "pause"
      ]_vars

C25_Witness ==
    /\ pc[1] = "pause"
    /\ emitted = <<Note("error", "Failed to open audio streams"),
                   Note("status", "Audio streams closed due to init error.")>>
    /\ inOpen = {} /\ outOpen = {} /\ wsState[1] = "none"

\* The step starts a pipeline of thread t
PipelineStarts(t) ==
    \/ sender[t] = "done" /\ sender'[t] # "done"
    \/ receiver[t] = "done" /\ receiver'[t] # "done"

\* The step is one of a pipeline of thread t: an input_audio_buffer.append
\* goes out, or an inbound event was received and processed
PipelineActs(t) ==
    \/ /\ sender[t] = "sending" /\ sender'[t] # "sending"
       /\ wire' = <<Message("input_audio_buffer.append", "")>>
    \/ /\ receiver[t] = "recv" /\ receiver'[t] # "recv"
       /\ wsState[t] = "open" /\ pc'[t] # "dead"

Configured == {"running", "ws_closing", "teardown", "backoff3", "backoff5",
               "pause"}

\* C26: the pipelines of a session start in the step that has sent the
\* session's initial session.update, and only there; no
\* input_audio_buffer.append goes out and no inbound event is processed in a
\* session that has not sent it; when sending it fails the session ends with
\* no pipeline started.
C26_ConfigureFirst ==
    [][\A t \in Threads :
          /\ PipelineStarts(t) =>
                /\ pc[t] = "configure" /\ pc'[t] = "running"
                /\ wire' = <<SessionUpdate>>
          /\ PipelineActs(t) => pc[t] \in Configured
          /\ (pc[t] = "configure" /\ pc'[t] # "configure"
                /\ wire' # <<SessionUpdate>>)
             => /\ pc'[t] = "ws_closing"
                /\ sender'[t] = "done" /\ receiver'[t] = "done"
      ]_vars

C26_Witness ==
    /\ pc[1] = "running"
    /\ wire = <<Message("input_audio_buffer.append", "")>>

\* C27: a running session of which one pipeline has ended goes on to its
\* teardown, whether or not the other pipeline ends.
C27_EitherEndsSession ==
    \A t \in Threads :
        (pc[t] = "running" /\ (sender[t] = "done" \/ receiver[t] = "done"))
            ~> (pc[t] # "running")

\* The step is an unexpected error of a pipeline of thread t: the microphone
\* read or the send raised, the receive raised, the frame received cannot be
\* decoded, the playback write raised
SenderFails(t) ==
    sender[t] \in {"reading", "sending"} /\ sender'[t] = "done" /\ pc'[t] # "dead"

ReceiveFails(t) ==
    receiver[t] = "recv" /\ receiver'[t] = "done" /\ wsState[t] # "open"

Received(t) == receiver[t] = "recv" /\ receiver'[t] # "recv" /\ wsState[t] = "open"

FrameFails(t) == Received(t) /\ Undecodable(log'[1])

WriteFails(t) ==
    /\ Received(t) /\ ~Undecodable(log'[1])
    /\ log'[1].type = "response.audio.delta" /\ log'[1].text # ""
    /\ _speaker_enabled
    /\ WriteRaises(log'[1])

\* C28: an unexpected error of a pipeline is notified as an error and ends
\* the pipeline when stop is not requested (an undecodable frame ends it with
\* the exception the supervisor reports), and is not notified when stop is
\* requested.
C28_PipelineErrors ==
    [][\A t \in Threads :
          /\ (SenderFails(t) \/ ReceiveFails(t) \/ WriteFails(t)) =>
                IF _stop_flag
                THEN ErrorNotes(emitted') = {}
                ELSE Cardinality(ErrorNotes(emitted')) = 1
          /\ FrameFails(t) =>
                /\ receiver'[t] = "raised"
                /\ ErrorNotes(emitted') = {}
          /\ WriteFails(t) => receiver'[t] = "done"
      ]_vars

\* C29: while stop is requested, the send pipeline and the receive pipeline
\* begin no iteration (each ends at its loop condition, so that at most the
\* append and the event in progress are still handled), and the supervisor
\* begins no session attempt.
C29_StopEndsIterations ==
    [][\A t \in Threads :
          _stop_flag =>
              /\ (sender[t] = "top" /\ sender'[t] # "top") => sender'[t] = "done"
              /\ (receiver[t] = "top" /\ receiver'[t] # "top")
                    => receiver'[t] = "done"
              /\ (pc[t] = "loop_top" /\ pc'[t] # "loop_top")
                    => pc'[t] = "exiting"
              /\ (pc[t] = "session" /\ pc'[t] # "session")
                    => pc'[t] = "loop_top"
              /\ (pc[t] \in Waits /\ pc'[t] # pc[t]) => pc'[t] = "loop_top"
              /\ pc'[t] = "open_audio" => pc[t] = "open_audio"
      ]_vars

C29_Witness ==
    /\ _stop_flag
    /\ sender[1] = "top"
    /\ wire = <<Message("input_audio_buffer.append", "")>>

\* C30: an audio chunk received while the speaker is disabled changes
\* nothing: assistant-speaking and the time of the last assistant audio stay
\* as they are, nothing is notified, both transcript buffers and the audio
\* streams stay as they are, and the receive pipeline is back at its loop
\* condition.
C30_SpeakerOffIgnored ==
    [][\A t \in Threads :
          (/\ Received(t)
           /\ log'[1].type = "response.audio.delta"
           /\ ~_speaker_enabled)
          => /\ UNCHANGED <<echoVars, bufVars, clientVars, resVars>>
             /\ emitted' = <<>>
             /\ wire' = <<>>
             /\ receiver'[t] = "top"
             /\ UNCHANGED <<pc, sender>>
      ]_vars

C30_Witness ==
    /\ log = <<Event("response.audio.delta", "AAAA", FALSE)>>
    /\ lastFrame = "speaker_off"
    /\ pc[1] = "running" /\ receiver[1] = "top"
    /\ ~_assistant_speaking /\ _last_assistant_audio_time = 0

\* The audio_transcript.delta fragments among l[1..i] that no later "done"
\* event of l[1..i] follows, concatenated
RECURSIVE AudioAccumulated(_, _)
AudioAccumulated(l, i) ==
    IF i = 0 \/ l[i].type \in DoneTypes THEN ""
    ELSE AudioAccumulated(l, i - 1)
         \o (IF l[i].type = "response.audio_transcript.delta" THEN l[i].text
             ELSE "")

\* C31: audio_transcript.done gives an assistant-text notification exactly
\* when no text.delta is accumulated and a transcript is there: the event's
\* own transcript if it has one, the accumulated audio_transcript.delta
\* fragments in their order of arrival otherwise; both buffers are empty
\* afterwards.
C31_AudioTranscriptDone ==
    [][(/\ Len(log') = Len(log) + 1
        /\ log'[Len(log')].type = "response.audio_transcript.done") =>
          LET transcript == IF log'[Len(log')].text # ""
                            THEN log'[Len(log')].text
                            ELSE AudioAccumulated(log, Len(log))
          IN  /\ emitted' = IF Accumulated(log, Len(log)) = "" /\ transcript # ""
                            THEN <<Note("text", transcript)>> ELSE <<>>
              /\ _assistant_text_buffer' = ""
              /\ _assistant_audio_buffer' = ""]_vars

C31_Witness ==
    /\ Len(log) = 3
    /\ log[1] = Event("response.audio_transcript.delta", "Hel", FALSE)
    /\ log[2] = Event("response.audio_transcript.delta", "lo", FALSE)
    /\ log[3] = Event("response.audio_transcript.done", "", FALSE)
    /\ emitted = <<Note("text", "Hello")>>
    /\ _assistant_audio_buffer = ""

-----------------------------------------------------------------------------
(* SpecConstruct: a client constructed with any VAD arguments, then        *)
(* set_vad_params calls and the life cycle of its sessions.                *)

ConstructorThresholds == {-50, 95, 250}
ConstructorSilences == {50, 1600}

ConstructNext ==
    \/ StartCall /\ NoThreadLeftBehind
    \/ StopCall
    \/ StopStep
    \/ \E threshold \in Optional({-50, 50, 250}) :
         \E silence_ms \in Optional({50, 2000}) :
            VadCall(threshold, silence_ms)
    \/ Schedule /\ UNCHANGED obsVars
    \/ \E t \in Threads : ControlStep(t)
    \/ \E t \in Threads : \E how \in {"closed_error", "closed_ok"} :
          PeerClose(t, how) /\ UNCHANGED obsVars

SpecConstruct ==
    /\ \E threshold \in ConstructorThresholds :
          \E silence_ms \in ConstructorSilences :
             Constructed(threshold, silence_ms)
    /\ [][ConstructNext]_vars

-----------------------------------------------------------------------------
(* SpecGuard: one session in which the assistant speaks, time passes, the  *)
(* microphone is read and the user types a text or asks for a response.    *)

GuardEvents ==
    {Event("response.audio.delta", "AAAA", FALSE),
     Event("response.audio.done", "", FALSE)}

GuardNext ==
    \/ \E t \in Threads : SenderTop(t) /\ UNCHANGED obsVars
    \/ \E t \in Threads : EchoRead(t)
    \/ \E t \in Threads : SenderSend(t) /\ UNCHANGED obsVars
    \/ \E t \in Threads : ReceiverTop(t) /\ UNCHANGED obsVars
    \/ \E t \in Threads : \E ev \in GuardEvents : EchoReceive(t, ev)
    \/ Tick /\ UNCHANGED obsVars
    \/ SubmitCall("Hi")
    \/ RequestCall
    \/ Schedule /\ UNCHANGED obsVars
    \/ \E t \in Threads : ScheduledStep(t)

SpecGuard == InitSession /\ [][GuardNext]_vars

\* C33: the echo guard gates microphone audio only.  While connected,
\* submit_text and request_response dispatch their events whatever the
\* assistant-speaking flag and the cooldown window are: the scheduled
\* coroutine puts its conversation.item.create and its response.create on the
\* open connection also while the assistant speaks or the cooldown runs.
C33_GuardGatesMicOnly ==
    [][/\ (CallStep("submit_text") /\ _loop # None /\ _connected) =>
            /\ ui' = "dispatch"
            /\ call' = [op |-> "user_text", text |-> args'[2]]
       /\ (CallStep("request_response") /\ SessionActive) =>
            /\ ui' = "dispatch"
            /\ call' = [op |-> "response_create", text |-> ""]
       /\ \A t \in Threads :
            (Ran(t) /\ Live(Head(sched[t]))) =>
                wire' = IF Head(sched[t]).op = "user_text"
                        THEN <<Message("conversation.item.create",
                                       Head(sched[t]).text)>>
                        ELSE <<Message("response.create", "")>>]_vars

\* A response.create goes out in a state in which a microphone frame was
\* dropped because the assistant speaks
C33_Witness ==
    /\ wire = <<Message("response.create", "")>>
    /\ args = <<"request_response", "", 0>>
    /\ _assistant_speaking
    /\ lastFrame = "dropped_speaking"

-----------------------------------------------------------------------------
(* SpecFresh: the sessions of one supervisor thread, one after the other:  *)
(* the assistant speaks and its text arrives in fragments, the peer closes *)
(* the connection, the next session begins.                                *)

FreshEvents ==
    {Event("response.audio.delta", "AAAA", FALSE),
     Event("response.text.delta", "Hel", FALSE),
     Event("response.audio_transcript.delta", "lo", FALSE)}

FreshNext ==
    \/ StartCall /\ NoThreadLeftBehind
    \/ StopCall
    \/ StopStep
    \/ \E t \in Threads : ControlStep(t)
    \/ \E t \in Threads : \E ev \in FreshEvents : TextReceive(t, ev)
    \/ \E t \in Threads : PeerClose(t, "closed_error") /\ UNCHANGED obsVars

SpecFresh == Init /\ [][FreshNext]_vars

\* The per-session state as a session is to find it
FreshState ==
    /\ ~_assistant_speaking
    /\ _last_assistant_audio_time = 0
    /\ _assistant_text_buffer = ""
    /\ _assistant_audio_buffer = ""
    /\ _mic_enabled => ~Suppressed

\* C34: when the pipelines of a session start the per-session state is
\* fresh, whatever the session before left behind: assistant-speaking is
\* false, the last-assistant-audio time is zero, both transcript buffers are
\* empty, and an enabled microphone is not suppressed.
C34_FreshAtStart ==
    [][\A t \in Threads : PipelineStarts(t) => FreshState']_vars

\* The pipelines of a session have started after a session in which the
\* assistant spoke and fragments of both kinds arrived
C34_Witness ==
    /\ Len(log) = 3
    /\ {log[i].type : i \in 1..3} = {ev.type : ev \in FreshEvents}
    /\ \E t \in Threads :
          pc[t] = "running" /\ sender[t] = "top" /\ receiver[t] = "top"
    /\ FreshState

\* The step makes an assistant-text notification
TextNotified == \E i \in 1..Len(emitted') : emitted'[i][1] = "text"

\* C35: text-channel fragments are never discarded without delivery: the
\* event that empties a text buffer holding response.text.delta fragments
\* comes with an assistant-text notification; in particular
\* response.audio_transcript.done does not lose the buffered text.
C35_NoTextLost ==
    [][(/\ Len(log') = Len(log) + 1
        /\ Accumulated(log, Len(log)) # ""
        /\ _assistant_text_buffer' = "") => TextNotified]_vars

\* The i-th event of l is a "done" event that made an assistant-text
\* notification (lines 638-657)
Delivered(l, i) ==
    CASE l[i].type = "response.text.done" ->
            l[i].text # "" \/ Accumulated(l, i - 1) # ""
      [] l[i].type = "response.audio_transcript.done" ->
            /\ Accumulated(l, i - 1) = ""
            /\ l[i].text # "" \/ AudioAccumulated(l, i - 1) # ""
      [] OTHER -> FALSE

\* C36: a response that streams a text channel and an audio transcript
\* yields at most one assistant-text notification, in either order of its
\* response.text.done and response.audio_transcript.done: the second of the
\* two "done" events notifies nothing when the first one has.
C36_OneNotification ==
    [][(/\ Len(log') = Len(log) + 1
        /\ log'[Len(log')].type \in DoneTypes
        /\ \E i \in 1..Len(log) :
              /\ Delivered(log, i)
              /\ log[i].type # log'[Len(log')].type
              /\ \A j \in 1..Len(log) : j # i => log[j].type \notin DoneTypes)
       => ~TextNotified]_vars

\* Where a supervisor is when the teardown of its last session is over and
\* the pipelines of its next one have not started
BetweenSessions ==
    {"backoff3", "backoff5", "pause", "loop_top", "session", "open_audio",
     "connecting", "configure", "exiting"}

\* C37: when the teardown of a session has completed neither of its
\* pipeline tasks is still runnable, also when the session ended because one
\* pipeline raised while the other was suspended.
C37_NoTaskAfterTeardown ==
    \A t \in Threads :
        pc[t] \in BetweenSessions =>
            sender[t] = "done" /\ receiver[t] = "done"

\* The connection-state notifications of a step
StateNotes(value) ==
    {i \in 1..Len(emitted') : emitted'[i] = Note("ws_state", value)}

\* C38: connection-state notifications strictly alternate, starting with
\* true: connection-state(true) is emitted only by the step that establishes
\* a connection, connection-state(false) exactly once by the step that ends
\* the session of an established connection, and never without a
\* connection-state(true) that it matches (not when connecting fails).
C38_StateAlternates ==
    [][/\ StateNotes("true") # {} =>
            /\ Cardinality(StateNotes("true")) = 1
            /\ \E t \in Threads : wsState[t] = "none" /\ wsState'[t] = "open"
       /\ StateNotes("false") # {} =>
            /\ Cardinality(StateNotes("false")) = 1
            /\ \E t \in Threads : wsState[t] # "none" /\ wsState'[t] = "none"
       /\ \A t \in Threads :
            (wsState[t] # "none" /\ wsState'[t] = "none" /\ pc'[t] # "dead") =>
                StateNotes("false") # {}]_vars

-----------------------------------------------------------------------------
(* SpecOrder: the handlers of the window that answer a question: each      *)
(* calls set_instructions and then request_response or submit_text, on the *)
(* UI thread, while the loop of the session runs what was handed to it.    *)

\* set_instructions of a handler
OrderInstructions(text) ==
    /\ IF args = <<>> THEN TRUE ELSE args[1] # "set_instructions"
    /\ InstructionsCall(text)

\* The second call of the handler; log keeps, for every request that is
\* still to be sent, the instructions the handler had set
OrderRequest ==
    /\ Len(args) = 3 /\ args[1] = "set_instructions"
    /\ \/ request_response_from_handler
          /\ args' = <<"request_response", "", 0>>
       \/ submit_text_from_handler("Hi")
          /\ args' = <<"submit_text", "Hi", 0>>
    /\ log' = IF ui' = "dispatch" THEN Append(log, instructions) ELSE log
    /\ UNCHANGED <<calls, lastFrame, lastChunk, lastPlayed>>

Requests == {"response_create", "user_text", "user_text_response"}

\* The loop runs the coroutine at the head of its queue; lastFrame keeps the
\* instructions of the last session.update put on the connection
OrderRun(t) ==
    /\ RunScheduled(t, TRUE)
    /\ lastFrame' = IF wire' # <<>> /\ wire'[1].type = "session.update"
                    THEN wire'[1].instructions ELSE lastFrame
    /\ log' = IF Head(sched[t]).op \in Requests /\ sched'[t] = Tail(sched[t])
              THEN Tail(log) ELSE log
    /\ UNCHANGED <<calls, lastChunk, lastPlayed, args>>

OrderNext ==
    \/ \E text \in {"Rag", "Short"} : OrderInstructions(text)
    \/ OrderRequest
    \/ Schedule /\ UNCHANGED obsVars
    \/ \E t \in Threads : OrderRun(t)
    \/ \E t \in Threads : SenderStep(t, {FALSE})
    \/ \E t \in Threads : PeerClose(t, "closed_error") /\ UNCHANGED obsVars

SpecOrder == InitSession /\ [][OrderNext]_vars

-----------------------------------------------------------------------------
(* SpecSpeaking: one session in which audio chunks and the end of the      *)
(* audio stream arrive in any order, the speaker is switched on and off,   *)
(* time passes and the microphone is read.                                 *)

SpeakingEvents ==
    {Event("response.audio.delta", "AAAA", FALSE),
     Event("response.audio.delta", "", FALSE),
     Event("response.audio.done", "", FALSE),
     Event("response.audio_transcript.done", "", FALSE)}

\* The arrival of an inbound event: the last one is kept
SpeakingReceive(t, ev) ==
    /\ ReceiverEvent(t, ev)
    /\ log' = <<ev>>
    /\ UNCHANGED <<calls, lastFrame, lastChunk, lastPlayed, args>>

SpeakingNext ==
    \/ \E t \in Threads : SenderTop(t) /\ UNCHANGED obsVars
    \/ \E t \in Threads : EchoRead(t)
    \/ \E t \in Threads : SenderSend(t) /\ UNCHANGED obsVars
    \/ \E t \in Threads : ReceiverTop(t) /\ UNCHANGED obsVars
    \/ \E t \in Threads : \E ev \in SpeakingEvents : SpeakingReceive(t, ev)
    \/ \E enabled \in BOOLEAN : toggle_speaker(enabled) /\ UNCHANGED obsVars
    \/ Tick /\ UNCHANGED obsVars

SpecSpeaking == InitSession /\ [][SpeakingNext]_vars

\* The step processes an inbound event (kept in log')
EventStep == \E t \in Threads : receiver[t] = "recv" /\ receiver'[t] # "recv"

\* C40: within a session assistant-speaking is set only by an audio chunk
\* that is processed (the speaker is enabled and the chunk has a payload)
\* and cleared only by response.audio.done; no passing of time clears it, so
\* every microphone frame read while it is set is dropped; a chunk that
\* arrives after response.audio.done sets it again.
C40_SpeakingFlag ==
    [][/\ EventStep =>
            _assistant_speaking' =
                CASE /\ log'[1].type = "response.audio.delta"
                     /\ _speaker_enabled /\ log'[1].text # "" -> TRUE
                  [] log'[1].type = "response.audio.done" -> FALSE
                  [] OTHER -> _assistant_speaking
       /\ ~EventStep => _assistant_speaking' = _assistant_speaking
       /\ \A t \in Threads :
            (FrameRead(t) /\ _assistant_speaking) => sender'[t] = "top"]_vars

\* A frame was dropped because the assistant speaks, long after the cooldown
\* of its last chunk was over
C40_Witness ==
    /\ lastFrame = "dropped_speaking"
    /\ _assistant_speaking /\ _mic_enabled
    /\ now - _last_assistant_audio_time > CooldownTicks

====
